---- MODULE Spec2Model ----
(***************************************************************************)
(* Meta-transaction relayer for the LiskEscrow platform.                   *)
(*                                                                         *)
(* The model has two layers:                                               *)
(*   - the chain: the LiskEscrow contract (nonces, escrows), the           *)
(*     EscrowRelayer forwarding contract, the USDC token and the           *)
(*     relayer account's native balance;                                   *)
(*   - the relayer service: one pipeline instance per relay request,       *)
(*     suspended at the network call it awaits.                            *)
(***************************************************************************)
EXTENDS Integers, Sequences, FiniteSets, TLC

(***************************************************************************)
(* Bounds of the model                                                     *)
(***************************************************************************)
\* relay requests that may be in flight at the same time
MaxReqs == 2
\* signatures are drawn over the nonces 0..MaxSigNonce
MaxSigNonce == 1
\* block.timestamp is 0; delivery deadlines are set to MaxTime
MaxTime == 1
\* token balances and allowances range over 0..MaxTokens
MaxTokens == 1
\* the relayer account's native balance, in units of 0.01 ETH
MaxRelayerBalance == 1
\* document hashes pushed per escrow by direct calls
MaxDocs == 1
\* escrows on the chain before direct calls stop creating more
MaxEscrows == 1
\* requests a client sends on after the rate limiter began rejecting it
MaxRejected == 2
\* requests the second client sends in a window
MaxBystander == 2

(***************************************************************************)
(* Program constants                                                       *)
(***************************************************************************)
\* parseEther('0.01'), in units of 0.01 ETH
MinRelayerBalance == 1
\* rateLimiter: points (process.env.RATE_LIMIT || 100)
RateLimitPoints == 100
\* rateLimiter: duration, in seconds
RateLimitDuration == 3600

(***************************************************************************)
(* Addresses and values                                                    *)
(***************************************************************************)
ZERO == "0x0"
Users == {"alice", "bob"}
\* the account of RELAYER_PRIVATE_KEY
RelayerAccount == "relayerAccount"
\* the deployed contracts
EscrowRelayer == "EscrowRelayer"
LiskEscrow == "LiskEscrow"
USDC == "USDC"
\* what ECDSA recovery yields for a digest the signature was not made over
Unrelated == "0xunrelated"

Reqs == 1..MaxReqs
SigNonces == 0..MaxSigNonce
Amounts == {1}
DocHashes == {"0xdoc"}
ZeroHash == "0x00"

NoEscrowId == <<ZERO, ZERO, 0, 0>>

ZeroEscrow ==
    [buyer |-> ZERO, seller |-> ZERO, amount |-> 0, deliveryDeadline |-> 0,
     status |-> "CREATED", token |-> ZERO, createdAt |-> 0, fundedAt |-> 0,
     documentsUploaded |-> FALSE]

\* no contract call has been made from outside the service
NoCall == [fn |-> "none", sender |-> ZERO, target |-> ZERO, signer |-> ZERO,
           type |-> "none", signed |-> FALSE, ok |-> FALSE]

VARIABLES
    nonces,              \* LiskEscrow.nonces
    escrows,             \* LiskEscrow.escrows (the ids written so far)
    escrowDocuments,     \* LiskEscrow.escrowDocuments
    trustedForwarder,    \* LiskEscrow.trustedForwarder
    authorizedRelayers,  \* EscrowRelayer.authorizedRelayers
    owner,               \* owner() of LiskEscrow and owner of EscrowRelayer
    balanceOf,           \* USDC balances
    allowance,           \* USDC allowances towards LiskEscrow
    relayerBalance,      \* native balance of the relayer account
    now,                 \* block.timestamp
    txs,                 \* transactions the relayer account has sent, in order
    req,                 \* the relay requests of the service
    executed,            \* history: how often each (signer, nonce) executed
    called,              \* history: the last contract call made from outside the service
    gasPrice,            \* the network's gas price (getGasPrice)
    GAS_PRICE_MULTIPLIER, \* process.env.GAS_PRICE_MULTIPLIER, in hundredths
    API_KEY,             \* process.env.API_KEY
    limiter,             \* rateLimiter: points consumed per key in its window
    answered,            \* the response the HTTP layer sent last
    admitted,            \* history: the request let into each handler, and its points
    lookup,              \* the GET /nonce/:address request being served
    clock,               \* Date.now() of the service's process, in ms
    expiresAt,           \* rateLimiter: the end of each key's window, in ms
    retryAt,             \* history: when a rejected client has waited its retryAfter
    receiptLogs,         \* the logs a call of extractEscrowIdFromLogs is given
    extracted            \* what that call yielded

chainVars == <<nonces, escrows, escrowDocuments, trustedForwarder,
               authorizedRelayers, owner, balanceOf, allowance, relayerBalance,
               now>>
httpVars == <<API_KEY, limiter, answered, admitted, lookup>>
timeVars == <<clock, expiresAt, retryAt>>
callVars == <<receiptLogs, extracted>>
envVars == <<gasPrice, GAS_PRICE_MULTIPLIER, timeVars, callVars>>
vars == <<nonces, escrows, escrowDocuments, trustedForwarder,
          authorizedRelayers, owner, balanceOf, allowance, relayerBalance, now,
          txs, req, executed, called, gasPrice, GAS_PRICE_MULTIPLIER, API_KEY,
          limiter, answered, admitted, lookup, clock, expiresAt, retryAt,
          receiptLogs, extracted>>

(***************************************************************************)
(* EIP-712 typed messages and signatures                                   *)
(***************************************************************************)
NoFields ==
    [seller |-> ZERO, amount |-> 0, token |-> ZERO, deliveryDeadline |-> 0,
     escrowId |-> NoEscrowId, documentHash |-> ZeroHash]

CreateEscrowMsg(seller, amount, token, deliveryDeadline, nonce) ==
    [type |-> "CreateEscrow",
     fields |-> [NoFields EXCEPT !.seller = seller, !.amount = amount,
                                 !.token = token,
                                 !.deliveryDeadline = deliveryDeadline],
     nonce |-> nonce]

FundEscrowMsg(escrowId, nonce) ==
    [type |-> "FundEscrow",
     fields |-> [NoFields EXCEPT !.escrowId = escrowId],
     nonce |-> nonce]

ConfirmDeliveryMsg(escrowId, nonce) ==
    [type |-> "ConfirmDelivery",
     fields |-> [NoFields EXCEPT !.escrowId = escrowId],
     nonce |-> nonce]

StoreDocumentMsg(escrowId, documentHash, nonce) ==
    [type |-> "StoreDocument",
     fields |-> [NoFields EXCEPT !.escrowId = escrowId,
                                 !.documentHash = documentHash],
     nonce |-> nonce]

\* a well-formed 65-byte signature: the key that made it and the message signed
Sign(signer, msg) == [wellFormed |-> TRUE, signer |-> signer, msg |-> msg]

\* bytes that are no 65-byte signature
MalformedSignature ==
    [wellFormed |-> FALSE, signer |-> ZERO,
     msg |-> [type |-> "none", fields |-> NoFields, nonce |-> 0]]

\* ECDSA recovery over the digest of msg: the signing key when the signature
\* was made over this very message, an unrelated address otherwise
Recover(signature, msg) ==
    IF signature.msg = msg THEN signature.signer ELSE Unrelated

(***************************************************************************)
(* The chain state as a value, so that a call can be run against it        *)
(* without being applied (gas estimation, simulation)                      *)
(***************************************************************************)
Chain ==
    [nonces |-> nonces, escrows |-> escrows,
     escrowDocuments |-> escrowDocuments,
     trustedForwarder |-> trustedForwarder,
     authorizedRelayers |-> authorizedRelayers, owner |-> owner,
     balanceOf |-> balanceOf, allowance |-> allowance, now |-> now]

Revert(s) == [ok |-> FALSE, state |-> s, logs |-> <<>>]
Success(s, logs) == [ok |-> TRUE, state |-> s, logs |-> logs]

EscrowAt(s, escrowId) ==
    IF escrowId \in DOMAIN s.escrows THEN s.escrows[escrowId] ELSE ZeroEscrow

NonceOf(s, a) == IF a \in DOMAIN s.nonces THEN s.nonces[a] ELSE 0

DocumentsOf(s, escrowId) ==
    IF escrowId \in DOMAIN s.escrowDocuments
    THEN s.escrowDocuments[escrowId] ELSE <<>>

\* a \cup (k :> v)
Put(f, k, v) == [x \in DOMAIN f \cup {k} |-> IF x = k THEN v ELSE f[x]]

\* the escrow id: keccak256(abi.encodePacked(buyer, seller, amount, block.timestamp))
EscrowIdOf(buyer, seller, amount, timestamp) ==
    <<buyer, seller, amount, timestamp>>

EscrowCreatedLog(escrowId) ==
    [address |-> LiskEscrow, topics |-> <<"EscrowCreated", escrowId>>]
OtherLog(address, name) == [address |-> address, topics |-> <<name>>]

(***************************************************************************)
(* USDC (ERC20) as LiskEscrow uses it                                      *)
(***************************************************************************)
\* SafeERC20.safeTransferFrom(from, LiskEscrow, amount), called by LiskEscrow
SafeTransferFrom(s, from, amount) ==
    IF \/ from \notin DOMAIN s.allowance
       \/ s.allowance[from] < amount
       \/ s.balanceOf[from] < amount
    THEN Revert(s)
    ELSE Success(
           [s EXCEPT !.allowance[from] = @ - amount,
                     !.balanceOf[from] = @ - amount,
                     !.balanceOf[LiskEscrow] = @ + amount],
           <<OtherLog(USDC, "Transfer")>>)

\* SafeERC20.safeTransfer(to, amount), called by LiskEscrow
SafeTransfer(s, to, amount) ==
    IF \/ to \notin DOMAIN s.balanceOf
       \/ s.balanceOf[LiskEscrow] < amount
    THEN Revert(s)
    ELSE Success(
           [s EXCEPT !.balanceOf[LiskEscrow] = @ - amount,
                     !.balanceOf[to] = @ + amount],
           <<OtherLog(USDC, "Transfer")>>)

\* MockUSDC.mint / faucet
mint(s, to, amount) == [s EXCEPT !.balanceOf[to] = @ + amount]

\* ERC20.approve(LiskEscrow, amount) by holder
approve(s, holder, amount) == [s EXCEPT !.allowance[holder] = amount]

\* ERC20.transfer of amount to an account outside the model
transfer(s, from, amount) == [s EXCEPT !.balanceOf[from] = @ - amount]

(***************************************************************************)
(* LiskEscrow: the bodies shared by the direct and the meta entry points   *)
(***************************************************************************)
\* faulty variant: the record is written whether or not the id is taken
NewEscrowOverwrites(s, buyer, seller, amount, token, deliveryDeadline) ==
    LET escrowId == EscrowIdOf(buyer, seller, amount, s.now) IN
    Success(
      [s EXCEPT !.escrows = Put(@, escrowId,
         [buyer |-> buyer, seller |-> seller, amount |-> amount,
          deliveryDeadline |-> deliveryDeadline, status |-> "CREATED",
          token |-> token, createdAt |-> s.now, fundedAt |-> 0,
          documentsUploaded |-> FALSE])],
      <<EscrowCreatedLog(escrowId)>>)

\* the escrow record createEscrow and createEscrowMeta write
NewEscrow(s, buyer, seller, amount, token, deliveryDeadline) ==
    LET escrowId == EscrowIdOf(buyer, seller, amount, s.now) IN
    IF EscrowAt(s, escrowId).buyer # ZERO
    THEN Revert(s)
    ELSE Success(
           [s EXCEPT !.escrows = Put(@, escrowId,
              [buyer |-> buyer, seller |-> seller, amount |-> amount,
               deliveryDeadline |-> deliveryDeadline, status |-> "CREATED",
               token |-> token, createdAt |-> s.now, fundedAt |-> 0,
               documentsUploaded |-> FALSE])],
           <<EscrowCreatedLog(escrowId)>>)

\* faulty variant: whoever pays funds the escrow
FundBodyAnyPayer(s, escrowId, buyer) ==
    LET escrow == EscrowAt(s, escrowId) IN
    IF \/ escrow.status # "CREATED"
       \/ ~(s.now <= escrow.deliveryDeadline)
       \/ escrow.token # USDC
    THEN Revert(s)
    ELSE LET t == SafeTransferFrom(s, buyer, escrow.amount) IN
         IF ~t.ok THEN Revert(s)
         ELSE Success(
                [t.state EXCEPT !.escrows[escrowId].status = "FUNDED",
                                !.escrows[escrowId].fundedAt = s.now],
                t.logs \o <<OtherLog(LiskEscrow, "EscrowFunded")>>)

\* the requires and effects of fundEscrow / fundEscrowMeta after authentication
FundBody(s, escrowId, buyer) ==
    LET escrow == EscrowAt(s, escrowId) IN
    IF \/ escrow.buyer # buyer
       \/ escrow.status # "CREATED"
       \/ ~(s.now <= escrow.deliveryDeadline)
       \/ escrow.token # USDC
    THEN Revert(s)
    ELSE LET t == SafeTransferFrom(s, buyer, escrow.amount) IN
         IF ~t.ok THEN Revert(s)
         ELSE Success(
                [t.state EXCEPT !.escrows[escrowId].status = "FUNDED",
                                !.escrows[escrowId].fundedAt = s.now],
                t.logs \o <<OtherLog(LiskEscrow, "EscrowFunded")>>)

\* the requires and effects of storeDocumentHash / storeDocumentHashMeta
StoreBody(s, escrowId, documentHash, seller) ==
    LET escrow == EscrowAt(s, escrowId) IN
    IF \/ escrow.seller # seller
       \/ escrow.status \notin {"FUNDED", "DOCUMENTS_PENDING"}
       \/ documentHash = ZeroHash
    THEN Revert(s)
    ELSE Success(
           [s EXCEPT !.escrowDocuments =
                        Put(@, escrowId,
                            Append(DocumentsOf(s, escrowId), documentHash)),
                     !.escrows[escrowId].documentsUploaded = TRUE,
                     !.escrows[escrowId].status =
                        IF escrow.documentsUploaded THEN @
                        ELSE "DOCUMENTS_PENDING"],
           <<OtherLog(LiskEscrow, "DocumentsUploaded")>>)

\* faulty variant: the seller is paid and the escrow stays DOCUMENTS_PENDING
ConfirmBodyKeepsStatus(s, escrowId, buyer) ==
    LET escrow == EscrowAt(s, escrowId) IN
    IF \/ escrow.buyer # buyer
       \/ escrow.status # "DOCUMENTS_PENDING"
    THEN Revert(s)
    ELSE LET t == SafeTransfer(s, escrow.seller, escrow.amount) IN
         IF ~t.ok THEN Revert(s)
         ELSE Success(t.state,
                t.logs \o <<OtherLog(LiskEscrow, "DeliveryConfirmed"),
                            OtherLog(LiskEscrow, "PaymentReleased")>>)

\* the requires and effects of confirmDelivery / confirmDeliveryMeta
ConfirmBody(s, escrowId, buyer) ==
    LET escrow == EscrowAt(s, escrowId) IN
    IF \/ escrow.buyer # buyer
       \/ escrow.status # "DOCUMENTS_PENDING"
    THEN Revert(s)
    ELSE LET t == SafeTransfer(
                    [s EXCEPT !.escrows[escrowId].status = "SETTLED"],
                    escrow.seller, escrow.amount) IN
         IF ~t.ok THEN Revert(s)
         ELSE Success(t.state,
                t.logs \o <<OtherLog(LiskEscrow, "DeliveryConfirmed"),
                            OtherLog(LiskEscrow, "PaymentReleased")>>)

(***************************************************************************)
(* LiskEscrow: direct entry points (msg.sender acts for itself)            *)
(***************************************************************************)
createEscrow(s, sender, seller, amount, token, deliveryDeadline) ==
    IF \/ seller = ZERO
       \/ seller = sender
       \/ ~(amount > 0)
       \/ ~(deliveryDeadline > s.now)
    THEN Revert(s)
    ELSE NewEscrow(s, sender, seller, amount, token, deliveryDeadline)

\* faulty variant: the direct entry point consumes a nonce of its sender too
fundEscrowBumpsNonce(s, sender, escrowId) ==
    LET r == FundBody([s EXCEPT !.nonces =
                                   Put(@, sender, NonceOf(s, sender) + 1)],
                      escrowId, sender) IN
    IF r.ok THEN r ELSE Revert(s)

fundEscrow(s, sender, escrowId) == FundBody(s, escrowId, sender)

storeDocumentHash(s, sender, escrowId, documentHash) ==
    StoreBody(s, escrowId, documentHash, sender)

confirmDelivery(s, sender, escrowId) == ConfirmBody(s, escrowId, sender)

initiateDispute(s, sender, escrowId) ==
    LET escrow == EscrowAt(s, escrowId) IN
    IF \/ ~(escrow.buyer = sender \/ escrow.seller = sender)
       \/ escrow.status \notin {"FUNDED", "DOCUMENTS_PENDING"}
    THEN Revert(s)
    ELSE Success([s EXCEPT !.escrows[escrowId].status = "DISPUTED"],
                 <<OtherLog(LiskEscrow, "DisputeInitiated")>>)

\* faulty variant: a party cancels the escrow whatever its status
cancelEscrowAnyStatus(s, sender, escrowId) ==
    LET escrow == EscrowAt(s, escrowId) IN
    IF ~(escrow.buyer = sender \/ escrow.seller = sender)
    THEN Revert(s)
    ELSE Success([s EXCEPT !.escrows[escrowId].status = "CANCELLED"],
                 <<OtherLog(LiskEscrow, "EscrowCancelled")>>)

cancelEscrow(s, sender, escrowId) ==
    LET escrow == EscrowAt(s, escrowId) IN
    IF \/ ~(escrow.buyer = sender \/ escrow.seller = sender)
       \/ escrow.status # "CREATED"
    THEN Revert(s)
    ELSE Success([s EXCEPT !.escrows[escrowId].status = "CANCELLED"],
                 <<OtherLog(LiskEscrow, "EscrowCancelled")>>)

\* onlyOwner: the owner sends the escrowed amount to the buyer or the seller
resolveDispute(s, sender, escrowId, refundBuyer) ==
    LET escrow == EscrowAt(s, escrowId) IN
    IF \/ sender # s.owner[LiskEscrow]
       \/ escrow.status # "DISPUTED"
    THEN Revert(s)
    ELSE LET t == SafeTransfer(
                    [s EXCEPT !.escrows[escrowId].status = "SETTLED"],
                    IF refundBuyer THEN escrow.buyer ELSE escrow.seller,
                    escrow.amount) IN
         IF ~t.ok THEN Revert(s)
         ELSE Success(t.state,
                t.logs \o <<OtherLog(LiskEscrow, "PaymentReleased")>>)

\* onlyOwner; require(newForwarder != address(0))
updateTrustedForwarder(s, sender, newForwarder) ==
    IF \/ sender # s.owner[LiskEscrow]
       \/ newForwarder = ZERO
    THEN Revert(s)
    ELSE Success([s EXCEPT !.trustedForwarder = newForwarder], <<>>)

(***************************************************************************)
(* LiskEscrow: meta-transaction entry points                               *)
(***************************************************************************)
\* faulty variant: the digest is built without the nonce, so a signature is
\* accepted at whatever nonce the signer has reached
MetaAuthorizedAnyNonce(s, sender, actor, signature, msg) ==
    /\ sender = s.trustedForwarder
    /\ signature.wellFormed
    /\ signature.signer = actor
    /\ signature.msg.type = msg.type
    /\ signature.msg.fields = msg.fields

\* require(msg.sender == trustedForwarder); recover; require(signer == actor)
MetaAuthorized(s, sender, actor, signature, msg) ==
    /\ sender = s.trustedForwarder
    /\ signature.wellFormed
    /\ Recover(signature, msg) = actor

\* faulty variant: the nonce is left where it is
BumpNonceOmitted(s, actor) == s

\* nonces[actor]++
BumpNonce(s, actor) == [s EXCEPT !.nonces = Put(@, actor, NonceOf(s, actor) + 1)]

\* faulty variant: msg.sender is not compared with trustedForwarder
createEscrowMetaAnySender(s, sender, seller, amount, token, deliveryDeadline, buyer, signature) ==
    IF ~MetaAuthorized(s, s.trustedForwarder, buyer, signature,
          CreateEscrowMsg(seller, amount, token, deliveryDeadline, NonceOf(s, buyer)))
    THEN Revert(s)
    ELSE LET r == NewEscrow(BumpNonce(s, buyer), buyer, seller, amount, token,
                            deliveryDeadline) IN
         IF r.ok THEN r ELSE Revert(s)

createEscrowMeta(s, sender, seller, amount, token, deliveryDeadline, buyer, signature) ==
    IF ~MetaAuthorized(s, sender, buyer, signature,
          CreateEscrowMsg(seller, amount, token, deliveryDeadline, NonceOf(s, buyer)))
    THEN Revert(s)
    ELSE LET r == NewEscrow(BumpNonce(s, buyer), buyer, seller, amount, token,
                            deliveryDeadline) IN
         IF r.ok THEN r ELSE Revert(s)

fundEscrowMeta(s, sender, escrowId, buyer, signature) ==
    IF ~MetaAuthorized(s, sender, buyer, signature,
          FundEscrowMsg(escrowId, NonceOf(s, buyer)))
    THEN Revert(s)
    ELSE LET r == FundBody(BumpNonce(s, buyer), escrowId, buyer) IN
         IF r.ok THEN r ELSE Revert(s)

confirmDeliveryMeta(s, sender, escrowId, buyer, signature) ==
    IF ~MetaAuthorized(s, sender, buyer, signature,
          ConfirmDeliveryMsg(escrowId, NonceOf(s, buyer)))
    THEN Revert(s)
    ELSE LET r == ConfirmBody(BumpNonce(s, buyer), escrowId, buyer) IN
         IF r.ok THEN r ELSE Revert(s)

storeDocumentHashMeta(s, sender, escrowId, documentHash, seller, signature) ==
    IF ~MetaAuthorized(s, sender, seller, signature,
          StoreDocumentMsg(escrowId, documentHash, NonceOf(s, seller)))
    THEN Revert(s)
    ELSE LET r == StoreBody(BumpNonce(s, seller), escrowId, documentHash, seller) IN
         IF r.ok THEN r ELSE Revert(s)

(***************************************************************************)
(* EscrowRelayer: the forwarding contract the service sends to             *)
(***************************************************************************)
\* a relay call: the function of EscrowRelayer and its arguments
RelayCall(method, p) ==
    [method |-> method, seller |-> p.seller, amount |-> p.amount,
     token |-> p.token, deliveryDeadline |-> p.deliveryDeadline,
     escrowId |-> p.escrowId, documentHash |-> p.documentHash,
     actor |-> p.actor, signature |-> p.signature]

\* faulty variant: the relay functions lack the onlyRelayer modifier
ExecRelayAnySender(s, sender, c) ==
    LET r ==
          CASE c.method = "relayCreateEscrow" ->
                 createEscrowMeta(s, EscrowRelayer, c.seller, c.amount,
                     c.token, c.deliveryDeadline, c.actor, c.signature)
            [] c.method = "relayFundEscrow" ->
                 fundEscrowMeta(s, EscrowRelayer, c.escrowId, c.actor,
                     c.signature)
            [] c.method = "relayConfirmDelivery" ->
                 confirmDeliveryMeta(s, EscrowRelayer, c.escrowId, c.actor,
                     c.signature)
            [] c.method = "relayStoreDocument" ->
                 storeDocumentHashMeta(s, EscrowRelayer, c.escrowId,
                     c.documentHash, c.actor, c.signature)
            [] OTHER -> Revert(s)
    IN IF r.ok
       THEN Success(r.state,
                    r.logs \o <<OtherLog(EscrowRelayer, "TransactionRelayed")>>)
       ELSE Revert(s)

\* msg.sender calls EscrowRelayer.<method>(args): onlyRelayer, then the meta
\* entry point of LiskEscrow with msg.sender = EscrowRelayer, then the
\* TransactionRelayed event
ExecRelay(s, sender, c) ==
    IF sender \notin s.authorizedRelayers THEN Revert(s)
    ELSE LET r ==
               CASE c.method = "relayCreateEscrow" ->
                      createEscrowMeta(s, EscrowRelayer, c.seller, c.amount,
                          c.token, c.deliveryDeadline, c.actor, c.signature)
                 [] c.method = "relayFundEscrow" ->
                      fundEscrowMeta(s, EscrowRelayer, c.escrowId, c.actor,
                          c.signature)
                 [] c.method = "relayConfirmDelivery" ->
                      confirmDeliveryMeta(s, EscrowRelayer, c.escrowId, c.actor,
                          c.signature)
                 [] c.method = "relayStoreDocument" ->
                      storeDocumentHashMeta(s, EscrowRelayer, c.escrowId,
                          c.documentHash, c.actor, c.signature)
                 [] OTHER -> Revert(s)
         IN IF r.ok
            THEN Success(r.state,
                         r.logs \o <<OtherLog(EscrowRelayer, "TransactionRelayed")>>)
            ELSE Revert(s)

\* EscrowRelayer.authorizeRelayer: onlyOwner
authorizeRelayer(s, sender, relayer) ==
    IF sender # s.owner[EscrowRelayer] THEN Revert(s)
    ELSE Success([s EXCEPT !.authorizedRelayers = @ \cup {relayer}],
                 <<OtherLog(EscrowRelayer, "RelayerAuthorized")>>)

\* EscrowRelayer.revokeRelayer: onlyOwner
revokeRelayer(s, sender, relayer) ==
    IF sender # s.owner[EscrowRelayer] THEN Revert(s)
    ELSE Success([s EXCEPT !.authorizedRelayers = @ \ {relayer}],
                 <<OtherLog(EscrowRelayer, "RelayerRevoked")>>)

\* EscrowRelayer.transferOwnership: onlyOwner; require(newOwner != address(0))
transferOwnership(s, sender, newOwner) ==
    IF \/ sender # s.owner[EscrowRelayer]
       \/ newOwner = ZERO
    THEN Revert(s)
    ELSE Success([s EXCEPT !.owner[EscrowRelayer] = newOwner], <<>>)

(***************************************************************************)
(* The relayer service: one pipeline instance per relay request            *)
(***************************************************************************)
Variants == {"CreateEscrow", "FundEscrow", "ConfirmDelivery", "StoreDocument"}

MethodOf(variant) ==
    CASE variant = "CreateEscrow" -> "relayCreateEscrow"
      [] variant = "FundEscrow" -> "relayFundEscrow"
      [] variant = "ConfirmDelivery" -> "relayConfirmDelivery"
      [] variant = "StoreDocument" -> "relayStoreDocument"

\* the body of a relay request; actor is the buyer, or the seller of
\* a StoreDocument request
Params(variant, actor, fields, signature) ==
    [variant |-> variant, actor |-> actor, seller |-> fields.seller,
     amount |-> fields.amount, token |-> fields.token,
     deliveryDeadline |-> fields.deliveryDeadline,
     escrowId |-> fields.escrowId, documentHash |-> fields.documentHash,
     signature |-> signature]

NoParams == Params("none", ZERO, NoFields, MalformedSignature)

NoResult == [success |-> FALSE, escrowId |-> NoEscrowId, transactionHash |-> 0]

\* a request slot before its request arrives
IdleReq ==
    [pc |-> "idle", params |-> NoParams,
     \* the locals of relay<Variant> and executeTransaction
     nonce |-> 0, balance |-> 0, escrowAmount |-> 0, userBalance |-> 0,
     userAllowance |-> 0, adjustedGasPrice |-> 0, tx |-> 0,
     \* what the route handler answers
     error |-> "", result |-> NoResult,
     \* history, for the properties only: the stages completed, the reads
     \* that returned, the nonce on the chain and the block time when the
     \* request arrived, the calls made
     stages |-> <<>>, reads |-> {}, nonceAtReceive |-> 0, receivedAt |-> 0,
     estimateCalls |-> 0, simulateCalls |-> 0, writeCalls |-> 0]

\* the stages of the pipeline, in order
Pipeline == <<"Received", "Verified", "Preflighted", "GasEstimated",
              "Simulated", "Submitted", "Confirmed">>

\* a thrown error ends the request: the route handler answers 500
Fail(q, message) ==
    [q EXCEPT !.pc = "failed", !.error = message,
              !.stages = Append(@, "Failed")]

\* the next await is reached, with the stages completed on the way
Advance(q, pc, completed) ==
    [q EXCEPT !.pc = pc, !.stages = @ \o completed]

\* signature.startsWith('0x') && signature.length === 132
SignatureFormatOk(signature) == signature.wellFormed

\* documentHash.startsWith('0x') && documentHash.length === 66
DocumentHashFormatOk(documentHash) == documentHash \in DocHashes \cup {ZeroHash}

\* the typed message the service rebuilds from the request and the nonce read
MessageOf(p, nonce) ==
    CASE p.variant = "CreateEscrow" ->
           CreateEscrowMsg(p.seller, p.amount, p.token, p.deliveryDeadline, nonce)
      [] p.variant = "FundEscrow" -> FundEscrowMsg(p.escrowId, nonce)
      [] p.variant = "ConfirmDelivery" -> ConfirmDeliveryMsg(p.escrowId, nonce)
      [] p.variant = "StoreDocument" ->
           StoreDocumentMsg(p.escrowId, p.documentHash, nonce)

\* faulty variant: the signature is checked to be over the message, by whatever key
VerifyTypedDataAnySigner(address, message, signature) ==
    Recover(signature, message) # Unrelated

\* faulty variant: the digest leaves out the type of the message
VerifyTypedDataAnyType(address, message, signature) ==
    /\ signature.signer = address
    /\ signature.msg.fields = message.fields
    /\ signature.msg.nonce = message.nonce

\* viem verifyTypedData: the recovered signer equals the claimed address
VerifyTypedData(address, message, signature) ==
    Recover(signature, message) = address

\* relay<Variant>(params) up to its first await: the synchronous format checks
StartRequest(p, s) ==
    LET q == [IdleReq EXCEPT !.params = p, !.stages = <<"Received">>,
                             !.nonceAtReceive = NonceOf(s, p.actor),
                             !.receivedAt = s.now] IN
    IF p.variant = "CreateEscrow" /\ ~SignatureFormatOk(p.signature)
    THEN Fail(q, "Invalid signature format")
    ELSE IF p.variant = "StoreDocument" /\ ~DocumentHashFormatOk(p.documentHash)
    THEN Fail(q, "Invalid document hash format")
    ELSE [q EXCEPT !.pc = "getNonce"]

\* faulty variant: a verified FundEscrow goes to gas estimation without its reads
AfterVerificationNoFundReads(q) ==
    CASE q.params.variant = "CreateEscrow" ->
           Advance(q, "getRelayerBalance", <<"Verified">>)
      [] q.params.variant = "FundEscrow" ->
           Advance(q, "estimateGas", <<"Verified">>)
      [] OTHER -> Advance(q, "estimateGas", <<"Verified", "Preflighted">>)

\* where a verified request goes next: the preflight reads of its variant,
\* or gas estimation when the variant has none
AfterVerification(q) ==
    CASE q.params.variant = "CreateEscrow" ->
           Advance(q, "getRelayerBalance", <<"Verified">>)
      [] q.params.variant = "FundEscrow" ->
           Advance(q, "getEscrowDetails", <<"Verified">>)
      [] OTHER -> Advance(q, "estimateGas", <<"Verified", "Preflighted">>)

\* faulty variant: the message is rebuilt with the nonce the signature was made
\* over, not with the nonce read from the contract
VerifyStepSignedNonce(q, s) ==
    LET nonce == NonceOf(s, q.params.actor)
        q1 == [q EXCEPT !.nonce = nonce, !.reads = @ \cup {"getNonce"}] IN
    IF ~q.params.signature.wellFormed
    THEN Fail(q1, "invalid signature length")
    ELSE IF ~VerifyTypedData(q.params.actor,
                             MessageOf(q.params, q.params.signature.msg.nonce),
                             q.params.signature)
    THEN Fail(q1, "Invalid signature")
    ELSE AfterVerification(q1)

\* getNonce returns and the signature is verified against the nonce read
\* (verifyTypedData awaits no chain call)
VerifyStep(q, s) ==
    LET nonce == NonceOf(s, q.params.actor)
        q1 == [q EXCEPT !.nonce = nonce, !.reads = @ \cup {"getNonce"}] IN
    IF ~q.params.signature.wellFormed
    THEN Fail(q1, "invalid signature length")
    ELSE IF ~VerifyTypedData(q.params.actor, MessageOf(q.params, nonce),
                             q.params.signature)
    THEN Fail(q1, "Invalid signature")
    ELSE AfterVerification(q1)

\* faulty variant: the balance is read and not compared
RelayerBalanceStepUnchecked(q, balance) ==
    Advance([q EXCEPT !.balance = balance,
                      !.reads = @ \cup {"getRelayerBalance"}],
            "estimateGas", <<"Preflighted">>)

\* CreateEscrow preflight: getRelayerBalance returns
RelayerBalanceStep(q, balance) ==
    LET q1 == [q EXCEPT !.balance = balance,
                        !.reads = @ \cup {"getRelayerBalance"}] IN
    IF balance < MinRelayerBalance
    THEN Fail(q1, "Relayer balance too low")
    ELSE Advance(q1, "estimateGas", <<"Preflighted">>)

\* faulty variant: the allowance is compared before the balance
FundPreflightStepAllowanceFirst(q, userAllowance) ==
    LET q1 == [q EXCEPT !.userAllowance = userAllowance,
                        !.reads = @ \cup {"getUserAllowance"}] IN
    IF userAllowance < q.escrowAmount
    THEN Fail(q1, "Insufficient USDC allowance")
    ELSE IF q.userBalance < q.escrowAmount
    THEN Fail(q1, "Insufficient USDC balance")
    ELSE Advance(q1, "estimateGas", <<"Preflighted">>)

\* faulty variant: only the allowance is compared with the escrow's amount
FundPreflightStepAllowanceOnly(q, userAllowance) ==
    LET q1 == [q EXCEPT !.userAllowance = userAllowance,
                        !.reads = @ \cup {"getUserAllowance"}] IN
    IF userAllowance < q.escrowAmount
    THEN Fail(q1, "Insufficient USDC allowance")
    ELSE Advance(q1, "estimateGas", <<"Preflighted">>)

\* FundEscrow preflight: getUserAllowance, the last of the three reads, returns
FundPreflightStep(q, userAllowance) ==
    LET q1 == [q EXCEPT !.userAllowance = userAllowance,
                        !.reads = @ \cup {"getUserAllowance"}] IN
    IF q.userBalance < q.escrowAmount
    THEN Fail(q1, "Insufficient USDC balance")
    ELSE IF userAllowance < q.escrowAmount
    THEN Fail(q1, "Insufficient USDC allowance")
    ELSE Advance(q1, "estimateGas", <<"Preflighted">>)

\* faulty variant: a failed estimation is replaced by a default gas limit
EstimateStepDefaultGas(q, s) ==
    Advance([q EXCEPT !.estimateCalls = @ + 1], "simulateContract",
            <<"GasEstimated">>)

\* estimateContractGas runs the call against the current state
EstimateStep(q, s) ==
    LET q1 == [q EXCEPT !.estimateCalls = @ + 1] IN
    IF ExecRelay(s, RelayerAccount, RelayCall(MethodOf(q.params.variant), q.params)).ok
    THEN Advance(q1, "simulateContract", <<"GasEstimated">>)
    ELSE Fail(q1, "gas estimation reverted")

\* faulty variant: the simulation's error is logged and the write goes ahead
SimulateStepErrorIgnored(q, s) ==
    [Advance([q EXCEPT !.simulateCalls = @ + 1], "writeContract", <<"Simulated">>)
       EXCEPT !.writeCalls = @ + 1]

\* process.env.GAS_PRICE_MULTIPLIER is unset
UnsetMultiplier == -1
\* the multiplier used then, 1.1, in hundredths
DefaultMultiplier == 110

\* the multipliers m with two fraction digits, in hundredths up to 300, for
\* which the double m * 100 lies below the integer it stands for (1.15 * 100
\* is 114.99999999999999)
RoundsBelow == {29, 57, 58, 113, 114, 115, 116, 201, 203, 205, 207, 226, 228,
                230, 232, 251, 253, 255}

\* Math.floor(m * 100), for the multiplier m given in hundredths
FloorTimes100(hundredths) ==
    IF hundredths \in RoundsBelow THEN hundredths - 1 ELSE hundredths

\* gasPrice * BigInt(Math.floor((GAS_PRICE_MULTIPLIER || 1.1) * 100)) / BigInt(100)
AdjustedGasPrice(price, multiplier) ==
    LET m == IF multiplier = UnsetMultiplier THEN DefaultMultiplier
             ELSE multiplier IN
    (price * FloorTimes100(m)) \div 100

\* getGasPrice, then simulateContract runs the call against the current
\* state; on success writeContract is called at once
SimulateStep(q, s) ==
    LET q1 == [q EXCEPT !.simulateCalls = @ + 1] IN
    IF ExecRelay(s, RelayerAccount, RelayCall(MethodOf(q.params.variant), q.params)).ok
    THEN [Advance(q1, "writeContract", <<"Simulated">>) EXCEPT !.writeCalls = @ + 1]
    ELSE Fail(q1, "simulation reverted")

\* what a call of a function of the service yields: the value it returns or
\* the message of the error it throws
Returned(value) == [threw |-> FALSE, value |-> value]
Thrown(message) == [threw |-> TRUE, value |-> message]

\* an element read past the end of a JavaScript array (here in place of a
\* bytes32 topic)
Undefined == <<"undefined", "undefined", 0, 0>>

\* log.topics && log.topics.length > 0 && log.topics[0] === eventSig, where
\* eventSig is the hash of the signature of EscrowCreated; the sequences of
\* the model count from 1
IsEscrowCreated(log) ==
    /\ "topics" \in DOMAIN log
    /\ Len(log.topics) > 0
    /\ log.topics[1] = "EscrowCreated"

\* faulty variant: the last EscrowCreated log decides
extractEscrowIdFromLogsLast(logs) ==
    LET found == {i \in DOMAIN logs : IsEscrowCreated(logs[i])} IN
    IF found = {}
    THEN Thrown("EscrowCreated event not found in transaction logs")
    ELSE LET i == CHOOSE i \in found : \A j \in found : j <= i IN
         Returned(IF Len(logs[i].topics) >= 2 THEN logs[i].topics[2]
                  ELSE Undefined)

\* the for loop of extractEscrowIdFromLogs, from the i-th log on
RECURSIVE ExtractFrom(_, _)
ExtractFrom(logs, i) ==
    IF i > Len(logs)
    THEN Thrown("EscrowCreated event not found in transaction logs")
    ELSE IF IsEscrowCreated(logs[i])
         THEN Returned(IF Len(logs[i].topics) >= 2 THEN logs[i].topics[2]
                       ELSE Undefined)
         ELSE ExtractFrom(logs, i + 1)

extractEscrowIdFromLogs(logs) == ExtractFrom(logs, 1)

\* relayCreateEscrow: the escrow id from the logs, or the transaction hash
\* when extractEscrowIdFromLogs throws
ExtractedOr(logs, fallback) ==
    LET e == extractEscrowIdFromLogs(logs) IN
    IF e.threw THEN fallback ELSE e.value

\* the value relay<Variant> returns once the receipt is there; the escrow id
\* of a CreateEscrow falls back to the transaction hash (as a bytes32 value
\* that is no escrow id)
HashAsId(hash) == <<"txhash", "txhash", hash, 0>>

\* faulty variant: no escrow id is returned when the event is not found
ResultOfNoFallback(q, receipt) ==
    [success |-> TRUE,
     escrowId |->
        IF q.params.variant = "CreateEscrow"
        THEN ExtractedOr(receipt.logs, NoEscrowId)
        ELSE NoEscrowId,
     transactionHash |-> q.tx]

ResultOf(q, receipt) ==
    [success |-> TRUE,
     escrowId |->
        IF q.params.variant # "CreateEscrow" THEN NoEscrowId
        ELSE ExtractedOr(receipt.logs, HashAsId(q.tx)),
     transactionHash |-> q.tx]

\* waitForTransactionReceipt returns the receipt of the mined transaction
ReceiptStep(q, receipt) ==
    [Advance(q, "done", <<"Confirmed">>) EXCEPT !.result = ResultOf(q, receipt)]

(***************************************************************************)
(* The HTTP layer: the API key check, the rate limiter and the routes      *)
(***************************************************************************)
\* req.ip of the clients
Clients == {"ip1", "ip2"}

\* process.env.API_KEY unset, or the x-api-key header absent
NoApiKey == "unset"
ApiKeys == {NoApiKey, "secret"}

\* how long before the end of its key's window a request may arrive, in ms
ArrivalsMs == {1, 499, 500, 1499, RateLimitDuration * 1000}

\* RateLimiterMemory.consume(key): the key's points are incremented, in a new
\* window when the key has none; the promise rejects when they exceed the limit
Consume(points, key, msLeft) ==
    LET consumed == points[key] + 1 IN
    [allowed |-> consumed <= RateLimitPoints,
     consumedPoints |-> consumed,
     msBeforeNext |-> IF points[key] = 0 THEN RateLimitDuration * 1000
                      ELSE msLeft,
     points |-> [points EXCEPT ![key] = consumed]]

\* Math.round(ms / 1000) of a non-negative integer
RoundSeconds(ms) == (ms + 500) \div 1000

\* a request body: the fields sent and the names of those left out
Body(p, absent) == [params |-> p, absent |-> absent]

NoBody == Body(NoParams, {})

\* an HTTP request: its path, the client's address, its x-api-key header; the
\* body of a POST and the :address of a nonce request are filled in by With*
HttpRequest(path, client, apiKey) ==
    [path |-> path, client |-> client, apiKey |-> apiKey, body |-> NoBody,
     address |-> <<>>]

WithBody(request, body) == [request EXCEPT !.body = body]

WithAddress(request, address) == [request EXCEPT !.address = address]

\* a response, with the request it answers; status 0 stands for none sent yet
Answer(request, status, error) ==
    [request |-> request, path |-> request.path, client |-> request.client,
     status |-> status, error |-> error, retryAfter |-> 0, nonce |-> <<>>]

NoAnswer == Answer(HttpRequest("", "", NoApiKey), 0, "")

\* the API key middleware lets the request through
ApiKeyOk(request, key) ==
    \/ request.path = "/health"
    \/ key = NoApiKey
    \/ request.apiKey = key

\* faulty variant: the rate limiter counts the request and lets it through
GateUnlimited(request, key, points, msLeft) ==
    IF ~ApiKeyOk(request, key)
    THEN [answer |-> Answer(request, 401, "Invalid API key"),
          points |-> points, consumedPoints |-> 0]
    ELSE LET c == Consume(points, request.client, msLeft) IN
         [answer |-> Answer(request, 0, ""),
          points |-> c.points, consumedPoints |-> c.consumedPoints]

\* faulty variant: the rate limiter runs before the API key check
GateMetersFirst(request, key, points, msLeft) ==
    LET c == Consume(points, request.client, msLeft) IN
    [answer |-> IF ~c.allowed
                THEN [Answer(request, 429, "Too many requests")
                        EXCEPT !.retryAfter = RoundSeconds(c.msBeforeNext)]
                ELSE IF ~ApiKeyOk(request, key)
                THEN Answer(request, 401, "Invalid API key")
                ELSE Answer(request, 0, ""),
     points |-> c.points, consumedPoints |-> c.consumedPoints]

\* the two middlewares in the order they are registered: the response one of
\* them sends, or status 0 when both call next(); the limiter's points after
Gate(request, key, points, msLeft) ==
    IF ~ApiKeyOk(request, key)
    THEN [answer |-> Answer(request, 401, "Invalid API key"),
          points |-> points, consumedPoints |-> 0]
    ELSE LET c == Consume(points, request.client, msLeft) IN
         [answer |-> IF c.allowed THEN Answer(request, 0, "")
                     ELSE [Answer(request, 429, "Too many requests")
                             EXCEPT !.retryAfter = RoundSeconds(c.msBeforeNext)],
          points |-> c.points, consumedPoints |-> c.consumedPoints]

\* text as its sequence of characters
Repeat(ch, n) == [i \in 1..n |-> ch]

HexChars == {"0", "1", "2", "3", "4", "5", "6", "7", "8", "9",
             "a", "b", "c", "d", "e", "f", "A", "B", "C", "D", "E", "F"}

\* address.match(/^0x[a-fA-F0-9]{40}$/)
AddressFormatOk(address) ==
    /\ Len(address) = 42
    /\ address[1] = "0"
    /\ address[2] = "x"
    /\ \A i \in 3..42 : address[i] \in HexChars

\* the path /nonce/<address> matches the route '/nonce/:address': the
\* parameter is one non-empty path segment
NonceRouteMatches(address) ==
    /\ Len(address) > 0
    /\ \A i \in DOMAIN address : address[i] # "/"

\* the address of an account, as the text a client sends
AddressOf(u) == <<"0", "x">> \o Repeat(IF u = "alice" THEN "a" ELSE "B", 40)

\* the account a well-formed address text names
AccountAt(address) ==
    IF \E u \in Users : AddressOf(u) = address
    THEN CHOOSE u \in Users : AddressOf(u) = address
    ELSE "0xother"

\* nonce.toString(): the decimal digits of a natural number
Digits == <<"0", "1", "2", "3", "4", "5", "6", "7", "8", "9">>

RECURSIVE DecimalString(_)
DecimalString(n) ==
    IF n < 10 THEN <<Digits[n + 1]>>
    ELSE DecimalString(n \div 10) \o <<Digits[(n % 10) + 1]>>

\* the GET /nonce/:address handler before a request
IdleLookup ==
    [pc |-> "idle", request |-> HttpRequest("", "", NoApiKey), account |-> ZERO]

\* a handler invocation the middlewares have not let a request into
NotAdmitted == [points |-> 0, request |-> HttpRequest("", "", NoApiKey)]

\* the fields each POST /relay/* handler requires in the body
RequiredFields(variant) ==
    CASE variant = "CreateEscrow" ->
           {"seller", "amount", "token", "deliveryDeadline", "actor", "signature"}
      [] variant = "StoreDocument" ->
           {"escrowId", "documentHash", "actor", "signature"}
      [] OTHER -> {"escrowId", "actor", "signature"}

\* !seller || !amount || ... of the handler of the body's variant
MissingRequiredField(body) ==
    body.absent \cap RequiredFields(body.params.variant) # {}

\* faulty variant: the handler answers 200 with the error in the body
RelayResponseAlwaysOk(q) ==
    CASE q.pc = "done" ->
           [status |-> 200, error |-> "", details |-> "", result |-> q.result]
      [] q.pc = "failed" ->
           [status |-> 200, error |-> "Failed to relay transaction",
            details |-> q.error, result |-> NoResult]
      [] OTHER ->
           [status |-> 0, error |-> "", details |-> "", result |-> NoResult]

\* what the route handler of a relay request has sent: res.json(result) when
\* relay<Variant> returned, 500 with the error's message when it threw
RelayResponse(q) ==
    CASE q.pc = "done" ->
           [status |-> 200, error |-> "", details |-> "", result |-> q.result]
      [] q.pc = "failed" ->
           [status |-> 500, error |-> "Failed to relay transaction",
            details |-> q.error, result |-> NoResult]
      [] OTHER ->
           [status |-> 0, error |-> "", details |-> "", result |-> NoResult]

(***************************************************************************)
(* Initial state: the contracts are deployed, EscrowRelayer is the trusted *)
(* forwarder, the relayer account deployed them (it owns both and is the   *)
(* authorized relayer) and is funded, no request has arrived               *)
(***************************************************************************)
Deployed ==
    [nonces |-> [u \in Users |-> 0], escrows |-> <<>>,
     escrowDocuments |-> <<>>,
     trustedForwarder |-> EscrowRelayer,
     authorizedRelayers |-> {RelayerAccount},
     owner |-> [c \in {LiskEscrow, EscrowRelayer} |-> RelayerAccount],
     balanceOf |-> [a \in Users \cup {LiskEscrow} |-> 0],
     allowance |-> [u \in Users |-> 0], now |-> 0]

\* the chain takes the state s
SetChain(s) ==
    /\ nonces' = s.nonces
    /\ escrows' = s.escrows
    /\ escrowDocuments' = s.escrowDocuments
    /\ trustedForwarder' = s.trustedForwarder
    /\ authorizedRelayers' = s.authorizedRelayers
    /\ owner' = s.owner
    /\ balanceOf' = s.balanceOf
    /\ allowance' = s.allowance

\* no client has been rejected, or the rejected client was let in since
NoRetry == -1

\* time 0 of the clock, the windows of the rate limiter ending at the given
\* times; the specifications that let requests arrive at any time of a window
\* leave the clock there
ClockInit(ends) ==
    /\ clock = 0
    /\ expiresAt = ends
    /\ retryAt = [c \in DOMAIN ends |-> NoRetry]

\* the service at time 0 of its clock, the windows of its rate limiter ending
\* at the given times
HttpInitAt(key, points, ends) ==
    /\ API_KEY = key
    /\ limiter = points
    /\ answered = NoAnswer
    /\ admitted = [r \in Reqs |-> NotAdmitted]
    /\ lookup = IdleLookup
    /\ ClockInit(ends)

\* the service has just started: no request yet
HttpInit(key, points) ==
    HttpInitAt(key, points, [c \in DOMAIN points |-> 0])

\* extractEscrowIdFromLogs has not been called
NotCalled == Thrown("")

\* the call of extractEscrowIdFromLogs has been made
Called == ~(extracted.threw /\ extracted.value = "")

\* the chain is in state s with the given gas price, the service has the
\* given GAS_PRICE_MULTIPLIER and has no request; extractEscrowIdFromLogs is
\* about to be called with the given logs
ServiceInitLogs(s, price, multiplier, logs) ==
    /\ nonces = s.nonces
    /\ escrows = s.escrows
    /\ escrowDocuments = s.escrowDocuments
    /\ trustedForwarder = s.trustedForwarder
    /\ authorizedRelayers = s.authorizedRelayers
    /\ owner = s.owner
    /\ balanceOf = s.balanceOf
    /\ allowance = s.allowance
    /\ now = s.now
    /\ relayerBalance = MaxRelayerBalance
    /\ txs = <<>>
    /\ req = [r \in Reqs |-> IdleReq]
    /\ executed = <<>>
    /\ called = NoCall
    /\ gasPrice = price
    /\ GAS_PRICE_MULTIPLIER = multiplier
    /\ receiptLogs = logs
    /\ extracted = NotCalled

ServiceInitEnv(s, price, multiplier) ==
    ServiceInitLogs(s, price, multiplier, <<>>)

\* the same with a gas price of 1 wei and GAS_PRICE_MULTIPLIER unset
ServiceInit(s) == ServiceInitEnv(s, 1, UnsetMultiplier)

NoPoints == [c \in Clients |-> 0]

InitWith(s) == ServiceInit(s) /\ HttpInit(NoApiKey, NoPoints)

Init == InitWith(Deployed)

\* the model's bounds on what direct calls add to the chain: no escrow is
\* added beyond MaxEscrows
WithinBounds(s) ==
    /\ \A a \in DOMAIN s.nonces : s.nonces[a] <= MaxSigNonce + 1
    /\ \A e \in DOMAIN s.escrowDocuments : Len(s.escrowDocuments[e]) <= MaxDocs
    /\ \/ Cardinality(DOMAIN s.escrows) <= MaxEscrows
       \/ DOMAIN s.escrows = DOMAIN escrows

(***************************************************************************)
(* Inputs of the relay requests                                            *)
(***************************************************************************)
Deadlines == {MaxTime}

CreateFields ==
    {[NoFields EXCEPT !.seller = sl, !.amount = a, !.token = USDC,
                      !.deliveryDeadline = d] :
        sl \in Users, a \in Amounts, d \in Deadlines}

\* escrow ids a client may name: the ids on the chain and one that is not
KnownIds == DOMAIN escrows \cup {NoEscrowId}

FieldsOf(variant, ids) ==
    CASE variant = "CreateEscrow" -> CreateFields
      [] variant = "StoreDocument" ->
           {[NoFields EXCEPT !.escrowId = e, !.documentHash = h] :
               e \in ids, h \in DocHashes}
      [] OTHER -> {[NoFields EXCEPT !.escrowId = e] : e \in ids}

\* the message of a variant over given fields and nonce
MessageFor(variant, fields, nonce) ==
    MessageOf(Params(variant, ZERO, fields, MalformedSignature), nonce)

\* signatures made by the claimed actor over the request's own fields
HonestSignatures(variant, actor, fields) ==
    {Sign(actor, MessageFor(variant, fields, n)) : n \in SigNonces}

\* another value of each field, for signatures made over different fields
OtherFields(variant, fields) ==
    CASE variant = "CreateEscrow" -> [fields EXCEPT !.amount = @ + 1]
      [] variant = "StoreDocument" -> [fields EXCEPT !.documentHash = ZeroHash]
      [] OTHER -> [fields EXCEPT !.escrowId = EscrowIdOf("bob", "alice", 1, 0)]

\* FundEscrow and ConfirmDelivery have the same fields under different types
OtherVariant(variant) ==
    CASE variant = "FundEscrow" -> "ConfirmDelivery"
      [] variant = "ConfirmDelivery" -> "FundEscrow"
      [] variant = "CreateEscrow" -> "StoreDocument"
      [] variant = "StoreDocument" -> "CreateEscrow"

\* every way a request's signature can be right or wrong
AnySignatures(variant, actor, fields) ==
    HonestSignatures(variant, actor, fields)
    \cup {Sign(k, MessageFor(variant, fields, n)) :
            k \in Users \ {actor}, n \in SigNonces}
    \cup {Sign(actor, MessageFor(variant, OtherFields(variant, fields), n)) :
            n \in SigNonces}
    \cup {Sign(actor, MessageFor(OtherVariant(variant), fields, n)) :
            n \in SigNonces}
    \cup {MalformedSignature}

\* requests of any shape
AnyRequests ==
    UNION {
      UNION {
        UNION {
          {Params(variant, actor, fields, signature) :
             signature \in AnySignatures(variant, actor, fields)} :
          fields \in FieldsOf(variant, KnownIds)} :
        actor \in Users} :
      variant \in Variants}

\* the honest parties: alice buys, bob sells
Buyer == "alice"
Seller == "bob"

ActorOf(variant) == IF variant = "StoreDocument" THEN Seller ELSE Buyer

\* requests signed by their actor over their own fields, naming the given ids
HonestRequests(ids) ==
    UNION {
      UNION {
        {Params(variant, ActorOf(variant), fields, signature) :
           signature \in HonestSignatures(variant, ActorOf(variant), fields)} :
        fields \in {f \in FieldsOf(variant, ids) :
                      variant = "CreateEscrow" => f.seller = Seller}} :
      variant \in Variants}

(***************************************************************************)
(* Actions of the relayer service                                          *)
(***************************************************************************)
\* a relay request arrives: relay<Variant>(params) runs to its first await
Receive(r, p) ==
    /\ req[r].pc = "idle"
    /\ req' = [req EXCEPT ![r] = StartRequest(p, Chain)]
    /\ UNCHANGED <<chainVars, httpVars, txs, executed, called, envVars>>

\* getNonce returns; the signature is verified
VerifySignature(r) ==
    /\ req[r].pc = "getNonce"
    /\ req' = [req EXCEPT ![r] = VerifyStep(@, Chain)]
    /\ UNCHANGED <<chainVars, httpVars, txs, executed, called, envVars>>

\* CreateEscrow: getRelayerBalance returns
CheckRelayerBalance(r) ==
    /\ req[r].pc = "getRelayerBalance"
    /\ req' = [req EXCEPT ![r] = RelayerBalanceStep(@, relayerBalance)]
    /\ UNCHANGED <<chainVars, httpVars, txs, executed, called, envVars>>

\* FundEscrow: getEscrowDetails returns
GetEscrowDetails(r) ==
    /\ req[r].pc = "getEscrowDetails"
    /\ req' = [req EXCEPT ![r] =
                 [@ EXCEPT !.pc = "getUserBalance",
                           !.reads = @ \cup {"getEscrowDetails"},
                           !.escrowAmount =
                              EscrowAt(Chain, req[r].params.escrowId).amount]]
    /\ UNCHANGED <<chainVars, httpVars, txs, executed, called, envVars>>

\* FundEscrow: getUserBalance returns
GetUserBalance(r) ==
    /\ req[r].pc = "getUserBalance"
    /\ req' = [req EXCEPT ![r] =
                 [@ EXCEPT !.pc = "getUserAllowance",
                           !.reads = @ \cup {"getUserBalance"},
                           !.userBalance = balanceOf[req[r].params.actor]]]
    /\ UNCHANGED <<chainVars, httpVars, txs, executed, called, envVars>>

\* FundEscrow: getUserAllowance returns and the two comparisons are made
GetUserAllowance(r) ==
    /\ req[r].pc = "getUserAllowance"
    /\ req' = [req EXCEPT ![r] = FundPreflightStep(@, allowance[@.params.actor])]
    /\ UNCHANGED <<chainVars, httpVars, txs, executed, called, envVars>>

\* faulty variant: the call whose gas is estimated is executed on the chain
EstimateGasExecutes(r) ==
    /\ req[r].pc = "estimateGas"
    /\ req' = [req EXCEPT ![r] = EstimateStep(@, Chain)]
    /\ SetChain(ExecRelay(Chain, RelayerAccount,
                          RelayCall(MethodOf(req[r].params.variant),
                                    req[r].params)).state)
    /\ UNCHANGED <<relayerBalance, now, httpVars, txs, executed, called, envVars>>

\* estimateGas returns or throws
EstimateGas(r) ==
    /\ req[r].pc = "estimateGas"
    /\ req' = [req EXCEPT ![r] = EstimateStep(@, Chain)]
    /\ UNCHANGED <<chainVars, httpVars, txs, executed, called, envVars>>

\* executeTransaction: getGasPrice and simulateContract return or throw
Simulate(r) ==
    /\ req[r].pc = "simulateContract"
    /\ req' = [req EXCEPT ![r] =
                 [SimulateStep(@, Chain) EXCEPT !.adjustedGasPrice =
                     AdjustedGasPrice(gasPrice, GAS_PRICE_MULTIPLIER)]]
    /\ UNCHANGED <<chainVars, httpVars, txs, executed, called, envVars>>

\* executeTransaction: writeContract returns the hash of the transaction sent
WriteContract(r) ==
    /\ req[r].pc = "writeContract"
    /\ txs' = Append(txs, [req |-> r, status |-> "pending", logs |-> <<>>,
                           gasPrice |-> req[r].adjustedGasPrice,
                           call |-> RelayCall(MethodOf(req[r].params.variant),
                                              req[r].params)])
    /\ req' = [req EXCEPT ![r] =
                 [Advance(@, "waitForTransactionReceipt", <<"Submitted">>)
                    EXCEPT !.tx = Len(txs) + 1]]
    /\ UNCHANGED <<chainVars, httpVars, executed, called, envVars>>

\* faulty variant: a receipt that arrives after the timeout still completes
\* the request
AwaitReceiptLate(r) ==
    /\ \/ req[r].pc = "waitForTransactionReceipt"
       \/ req[r].pc = "failed" /\ req[r].error = "receipt timeout"
    /\ txs[req[r].tx].status # "pending"
    /\ req' = [req EXCEPT ![r] = ReceiptStep(@, txs[@.tx])]
    /\ UNCHANGED <<chainVars, httpVars, txs, executed, called, envVars>>

\* executeTransaction: waitForTransactionReceipt returns the receipt
AwaitReceipt(r) ==
    /\ req[r].pc = "waitForTransactionReceipt"
    /\ txs[req[r].tx].status # "pending"
    /\ req' = [req EXCEPT ![r] = ReceiptStep(@, txs[@.tx])]
    /\ UNCHANGED <<chainVars, httpVars, txs, executed, called, envVars>>

\* faulty variant: on a timeout the transaction is sent again
ReceiptTimeoutResubmit(r) ==
    /\ req[r].pc = "waitForTransactionReceipt"
    /\ txs[req[r].tx].status = "pending"
    /\ req' = [req EXCEPT ![r] = [@ EXCEPT !.pc = "writeContract",
                                            !.writeCalls = @ + 1]]
    /\ UNCHANGED <<chainVars, httpVars, txs, executed, called, envVars>>

\* faulty variant: when the timeout passes the wait is only noted and goes on
ReceiptTimeoutWaitsOn(r) ==
    /\ req[r].pc = "waitForTransactionReceipt"
    /\ txs[req[r].tx].status = "pending"
    /\ req' = [req EXCEPT ![r] = [@ EXCEPT !.error = "receipt timeout"]]
    /\ UNCHANGED <<chainVars, httpVars, txs, executed, called, envVars>>

\* executeTransaction: no receipt within the 10 s timeout
ReceiptTimeout(r) ==
    /\ req[r].pc = "waitForTransactionReceipt"
    /\ txs[req[r].tx].status = "pending"
    /\ req' = [req EXCEPT ![r] = Fail(@, "receipt timeout")]
    /\ UNCHANGED <<chainVars, httpVars, txs, executed, called, envVars>>

\* any awaited chain call throws (RPC error); nothing is caught and retried
AwaitingCall(q) == q.pc \notin {"idle", "done", "failed"}

RpcError(r) ==
    /\ AwaitingCall(req[r])
    /\ req' = [req EXCEPT ![r] = Fail(@, "RPC error")]
    /\ UNCHANGED <<chainVars, httpVars, txs, executed, called, envVars>>

(***************************************************************************)
(* Actions of the chain                                                    *)
(***************************************************************************)
\* history: the (signer, nonce) of a relay call is counted when it executes
Executed(log, res, c) ==
    IF res.ok
    THEN LET k == <<c.signature.signer, c.signature.msg.nonce>> IN
         Put(log, k, IF k \in DOMAIN log THEN log[k] + 1 ELSE 1)
    ELSE log

\* the oldest pending transaction of the relayer account is mined
FirstPending == CHOOSE i \in DOMAIN txs :
                   /\ txs[i].status = "pending"
                   /\ \A j \in 1..(i - 1) : txs[j].status # "pending"

Mine ==
    /\ \E i \in DOMAIN txs : txs[i].status = "pending"
    /\ LET i == FirstPending
           res == ExecRelay(Chain, RelayerAccount, txs[i].call) IN
       /\ SetChain(res.state)
       /\ txs' = [txs EXCEPT ![i].status = IF res.ok THEN "success" ELSE "reverted",
                             ![i].logs = res.logs]
       /\ executed' = Executed(executed, res, txs[i].call)
       /\ UNCHANGED <<called, envVars>>
    /\ UNCHANGED <<relayerBalance, now, httpVars, req>>

\* a call from outside the pipeline succeeds and changes the chain
ChainCall(res) ==
    /\ res.ok
    /\ WithinBounds(res.state)
    /\ SetChain(res.state)
    /\ UNCHANGED <<relayerBalance, now, httpVars, txs, req>>

\* a user calls LiskEscrow directly
DirectCreate ==
    /\ \E u \in Users, f \in CreateFields :
          ChainCall(createEscrow(Chain, u, f.seller, f.amount, f.token,
                                 f.deliveryDeadline))
    /\ UNCHANGED <<executed, called, envVars>>

DirectFund ==
    /\ \E u \in Users, e \in DOMAIN escrows : ChainCall(fundEscrow(Chain, u, e))
    /\ UNCHANGED <<executed, called, envVars>>

DirectStore ==
    /\ \E u \in Users, e \in DOMAIN escrows, h \in DocHashes :
          ChainCall(storeDocumentHash(Chain, u, e, h))
    /\ UNCHANGED <<executed, called, envVars>>

DirectConfirm ==
    /\ \E u \in Users, e \in DOMAIN escrows : ChainCall(confirmDelivery(Chain, u, e))
    /\ UNCHANGED <<executed, called, envVars>>

\* a meta-transaction relayed outside this pipeline (an earlier request of
\* the service, or another authorized relayer)
RelayedElsewhere ==
    \E p \in HonestRequests(DOMAIN escrows) :
        LET c == RelayCall(MethodOf(p.variant), p)
            res == ExecRelay(Chain, RelayerAccount, c) IN
        /\ ChainCall(res)
        /\ executed' = Executed(executed, res, c)
        /\ UNCHANGED <<called, envVars>>

\* USDC: mint / faucet
TokenMint(u) ==
    /\ balanceOf[u] < MaxTokens
    /\ SetChain(mint(Chain, u, 1))
    /\ UNCHANGED <<relayerBalance, now, httpVars, txs, req, executed, called, envVars>>

\* USDC: approve(LiskEscrow, a)
TokenApprove(u, a) ==
    /\ allowance[u] # a
    /\ SetChain(approve(Chain, u, a))
    /\ UNCHANGED <<relayerBalance, now, httpVars, txs, req, executed, called, envVars>>

\* USDC: the user transfers a token away
TokenSpend(u) ==
    /\ balanceOf[u] > 0
    /\ SetChain(transfer(Chain, u, 1))
    /\ UNCHANGED <<relayerBalance, now, httpVars, txs, req, executed, called, envVars>>

\* the relayer account pays gas or is topped up
NativeBalanceChange(b) ==
    /\ b # relayerBalance
    /\ relayerBalance' = b
    /\ UNCHANGED <<nonces, escrows, escrowDocuments, trustedForwarder,
                   authorizedRelayers, owner, balanceOf, allowance, now, txs,
                   req, executed, called, envVars, httpVars>>

\* request slots are taken in order
FreeSlot(r) == req[r].pc = "idle" /\ \A k \in 1..(r - 1) : req[k].pc # "idle"

ReceiveFrom(slots, requests) ==
    \E r \in slots : FreeSlot(r) /\ \E p \in requests : Receive(r, p)

(***************************************************************************)
(* Spec: one request, of any shape, against a chain that direct calls and  *)
(* other relayed calls keep changing                                       *)
(***************************************************************************)
Next ==
    \/ ReceiveFrom({1}, AnyRequests)
    \/ \E r \in Reqs : VerifySignature(r)
    \/ \E r \in Reqs : CheckRelayerBalance(r)
    \/ \E r \in Reqs : GetEscrowDetails(r)
    \/ \E r \in Reqs : GetUserBalance(r)
    \/ \E r \in Reqs : GetUserAllowance(r)
    \/ \E r \in Reqs : EstimateGas(r)
    \/ \E r \in Reqs : Simulate(r)
    \/ \E r \in Reqs : WriteContract(r)
    \/ \E r \in Reqs : AwaitReceipt(r)
    \/ \E r \in Reqs : ReceiptTimeout(r)
    \/ \E r \in Reqs : RpcError(r)
    \/ Mine
    \/ DirectCreate
    \/ RelayedElsewhere
    \/ TokenMint(Buyer)
    \/ TokenApprove(Buyer, MaxTokens)

Spec == Init /\ [][Next]_vars

(***************************************************************************)
(* SpecPreflight: one request signed by its actor, while the balances the  *)
(* preflight reads keep changing                                           *)
(***************************************************************************)
NextPreflight ==
    \/ ReceiveFrom({1}, HonestRequests(KnownIds))
    \/ \E r \in Reqs : VerifySignature(r)
    \/ \E r \in Reqs : CheckRelayerBalance(r)
    \/ \E r \in Reqs : GetEscrowDetails(r)
    \/ \E r \in Reqs : GetUserBalance(r)
    \/ \E r \in Reqs : GetUserAllowance(r)
    \/ \E r \in Reqs : EstimateGas(r)
    \/ \E r \in Reqs : Simulate(r)
    \/ \E r \in Reqs : WriteContract(r)
    \/ \E r \in Reqs : AwaitReceipt(r)
    \/ \E r \in Reqs : ReceiptTimeout(r)
    \/ \E r \in Reqs : RpcError(r)
    \/ Mine
    \/ DirectCreate
    \/ TokenMint(Buyer)
    \/ \E a \in 0..MaxTokens : TokenApprove(Buyer, a)
    \/ TokenSpend(Buyer)
    \/ \E b \in 0..MaxRelayerBalance : NativeBalanceChange(b)

SpecPreflight == Init /\ [][NextPreflight]_vars

(***************************************************************************)
(* SpecRace: requests in flight together, each signed by its actor, from   *)
(* the chain states alice and bob reach by direct calls: nothing yet, an   *)
(* escrow created and its amount approved, funded, documents stored        *)
(***************************************************************************)
SetupEscrowId == EscrowIdOf(Buyer, Seller, 1, 0)

AfterCreate ==
    approve(mint(createEscrow(Deployed, Buyer, Seller, 1, USDC, MaxTime).state,
                 Buyer, 1), Buyer, 1)
AfterFund == fundEscrow(AfterCreate, Buyer, SetupEscrowId).state
AfterStore == storeDocumentHash(AfterFund, Seller, SetupEscrowId, "0xdoc").state

InitRace == \E s \in {Deployed, AfterCreate, AfterFund, AfterStore} : InitWith(s)

NextRace ==
    \/ ReceiveFrom(Reqs, HonestRequests(DOMAIN escrows))
    \/ \E r \in Reqs : VerifySignature(r)
    \/ \E r \in Reqs : CheckRelayerBalance(r)
    \/ \E r \in Reqs : GetEscrowDetails(r)
    \/ \E r \in Reqs : GetUserBalance(r)
    \/ \E r \in Reqs : GetUserAllowance(r)
    \/ \E r \in Reqs : EstimateGas(r)
    \/ \E r \in Reqs : Simulate(r)
    \/ \E r \in Reqs : WriteContract(r)
    \/ \E r \in Reqs : AwaitReceipt(r)
    \/ \E r \in Reqs : ReceiptTimeout(r)
    \/ \E r \in Reqs : RpcError(r)
    \/ Mine

SpecRace == InitRace /\ [][NextRace]_vars

(***************************************************************************)
(* Actions of the HTTP layer                                               *)
(***************************************************************************)
\* the arrival times that make a difference to the client's next request
ArrivalsFor(c) ==
    IF limiter[c] >= RateLimitPoints THEN ArrivalsMs
    ELSE {RateLimitDuration * 1000}

\* the model's bounds on the requests of a client
MaySend(c) ==
    limiter[c] < (IF c = "ip1" THEN RateLimitPoints + MaxRejected
                  ELSE MaxBystander)

\* what the middlewares make of a request, for each time it may arrive
Gates(request) ==
    {Gate(request, API_KEY, limiter, ms) : ms \in ArrivalsFor(request.client)}

\* a request goes through the middlewares with outcome g
Served(request, g) ==
    /\ MaySend(request.client)
    /\ limiter' = g.points
    /\ UNCHANGED <<chainVars, txs, executed, called, envVars, API_KEY>>

\* a middleware has answered: no route runs
Rejected(g) ==
    /\ answered' = g.answer
    /\ UNCHANGED <<req, admitted, lookup>>

\* GET /health
HealthHandler(g) ==
    /\ answered' = [g.answer EXCEPT !.status = 200]
    /\ UNCHANGED <<req, admitted, lookup>>

HttpHealth(c, k) ==
    LET request == HttpRequest("/health", c, k) IN
    \E g \in Gates(request) :
        /\ Served(request, g)
        /\ IF g.answer.status = 0 THEN HealthHandler(g) ELSE Rejected(g)

\* a path with no route: the 404 handler
NotFoundHandler(g) ==
    /\ answered' = [g.answer EXCEPT !.status = 404,
                                    !.error = "Endpoint not found"]
    /\ UNCHANGED <<req, admitted, lookup>>

HttpOther(c, k) ==
    LET request == HttpRequest("/other", c, k) IN
    \E g \in Gates(request) :
        /\ Served(request, g)
        /\ IF g.answer.status = 0 THEN NotFoundHandler(g) ELSE Rejected(g)

\* the window of a client's points ends: rateLimiter forgets the key
WindowExpires(c) ==
    /\ limiter[c] > 0
    /\ limiter' = [limiter EXCEPT ![c] = 0]
    /\ UNCHANGED <<chainVars, txs, req, executed, called, envVars, API_KEY, answered, admitted,
                   lookup>>

(***************************************************************************)
(* SpecLimiter: clients, with or without the API key, against the routes   *)
(* that are answered at once, until the rate limiter rejects them          *)
(***************************************************************************)
InitLimiter ==
    \E key \in ApiKeys : ServiceInit(Deployed) /\ HttpInit(key, NoPoints)

NextLimiter ==
    \/ \E c \in Clients, k \in ApiKeys : HttpHealth(c, k)
    \/ \E c \in Clients, k \in ApiKeys : HttpOther(c, k)
    \/ \E c \in Clients : WindowExpires(c)

SpecLimiter == InitLimiter /\ [][NextLimiter]_vars

(***************************************************************************)
(* SpecHttp: relay requests of one client through the middlewares and the  *)
(* POST /relay/* handlers into the pipeline, around the moment the client   *)
(* uses up the points of its window                                        *)
(***************************************************************************)
\* the path of the handler of each variant
RelayPath(variant) ==
    CASE variant = "CreateEscrow" -> "/relay/create-escrow"
      [] variant = "FundEscrow" -> "/relay/fund-escrow"
      [] variant = "ConfirmDelivery" -> "/relay/confirm-delivery"
      [] variant = "StoreDocument" -> "/relay/store-document"

RelayPaths == {RelayPath(v) : v \in Variants}

\* the sets of field names a body leaves out
Absents == {{}, {"signature"}}

Bodies(requests) == {Body(p, a) : p \in requests, a \in Absents}

\* a POST /relay/* handler: 400 on a missing field, else relay<Variant>
\* runs to its first await; its response follows when the pipeline ends
RelayHandler(slots, g) ==
    LET request == g.answer.request IN
    IF MissingRequiredField(request.body)
    THEN /\ answered' = [g.answer EXCEPT !.status = 400,
                                         !.error = "Missing required fields"]
         /\ UNCHANGED <<req, admitted, lookup>>
    ELSE \E r \in slots :
            /\ FreeSlot(r)
            /\ req' = [req EXCEPT ![r] = StartRequest(request.body.params, Chain)]
            /\ admitted' = [admitted EXCEPT
                              ![r] = [points |-> g.consumedPoints,
                                      request |-> request]]
            /\ UNCHANGED <<answered, lookup>>

HttpRelay(slots, c, k, body) ==
    LET request == WithBody(HttpRequest(RelayPath(body.params.variant), c, k),
                            body) IN
    \E g \in Gates(request) :
        /\ Served(request, g)
        /\ IF g.answer.status = 0 THEN RelayHandler(slots, g) ELSE Rejected(g)

\* the requests of the client: signed by their actor, or with a signature of
\* the wrong length
ClientRequests ==
    LET honest == HonestRequests(KnownIds) IN
    honest \cup {[p EXCEPT !.signature = MalformedSignature] : p \in honest}

\* the client has made all but one or two of the requests of its window:
\* health checks, the last of them just answered
InitHttp ==
    \E n \in {RateLimitPoints - 2, RateLimitPoints - 1} :
        /\ ServiceInit(Deployed)
        /\ API_KEY = NoApiKey
        /\ limiter = [NoPoints EXCEPT !["ip1"] = n]
        /\ answered = Answer(HttpRequest("/health", "ip1", NoApiKey), 200, "")
        /\ ClockInit(NoPoints)
        /\ admitted = [r \in Reqs |-> NotAdmitted]
        /\ lookup = IdleLookup

NextHttp ==
    \/ \E b \in Bodies(ClientRequests) : HttpRelay({1}, "ip1", NoApiKey, b)
    \/ \E r \in Reqs : VerifySignature(r)
    \/ \E r \in Reqs : CheckRelayerBalance(r)
    \/ \E r \in Reqs : GetEscrowDetails(r)
    \/ \E r \in Reqs : GetUserBalance(r)
    \/ \E r \in Reqs : GetUserAllowance(r)
    \/ \E r \in Reqs : EstimateGas(r)
    \/ \E r \in Reqs : Simulate(r)
    \/ \E r \in Reqs : WriteContract(r)
    \/ \E r \in Reqs : AwaitReceipt(r)
    \/ \E r \in Reqs : ReceiptTimeout(r)
    \/ \E r \in Reqs : RpcError(r)
    \/ Mine

SpecHttp == InitHttp /\ [][NextHttp]_vars

(***************************************************************************)
(* SpecNonce: GET /nonce/:address requests of one client, with or without  *)
(* the API key, while relayed calls elsewhere move the nonces              *)
(***************************************************************************)
\* the :address texts a client sends; the empty one is the path /nonce/
AddressTexts ==
    {AddressOf(u) : u \in Users}
    \cup {<<"0", "x">> \o Repeat("0", 40),
          <<>>,
          <<"0", "x", "Z", "Z", "Z">>,
          Repeat("a", 40),
          <<"0", "x">> \o Repeat("a", 39),
          <<"0", "x">> \o Repeat("a", 41),
          <<"0", "X">> \o Repeat("a", 40),
          <<"0", "x">> \o Repeat("a", 39) \o <<"g">>,
          <<"0", "x">> \o Repeat("a", 19) \o <<"/">> \o Repeat("a", 20)}

\* the nonce route: a path that does not match falls through to the 404
\* handler; the handler answers 400 or awaits getNonce
NonceHandler(g) ==
    LET request == g.answer.request IN
    IF ~NonceRouteMatches(request.address)
    THEN NotFoundHandler(g)
    ELSE IF ~AddressFormatOk(request.address)
    THEN /\ answered' = [g.answer EXCEPT !.status = 400,
                                         !.error = "Invalid address format"]
         /\ UNCHANGED <<req, admitted, lookup>>
    ELSE /\ lookup.pc = "idle"
         /\ lookup' = [pc |-> "getNonce", request |-> request,
                       account |-> AccountAt(request.address)]
         /\ UNCHANGED <<req, admitted, answered>>

HttpNonce(c, k, address) ==
    LET request == WithAddress(HttpRequest("/nonce", c, k), address) IN
    \E g \in Gates(request) :
        /\ Served(request, g)
        /\ IF g.answer.status = 0 THEN NonceHandler(g) ELSE Rejected(g)

\* contractService.getNonce returns: res.json({nonce: nonce.toString()})
NonceRead ==
    /\ lookup.pc = "getNonce"
    /\ answered' = [Answer(lookup.request, 200, "")
                      EXCEPT !.nonce = DecimalString(NonceOf(Chain, lookup.account))]
    /\ lookup' = IdleLookup
    /\ UNCHANGED <<chainVars, txs, req, executed, called, envVars, API_KEY, limiter, admitted>>

\* contractService.getNonce throws: the handler's catch answers 500
NonceReadError ==
    /\ lookup.pc = "getNonce"
    /\ answered' = Answer(lookup.request, 500, "Failed to get nonce")
    /\ lookup' = IdleLookup
    /\ UNCHANGED <<chainVars, txs, req, executed, called, envVars, API_KEY, limiter, admitted>>

\* nonces the accounts have reached by earlier relayed calls
EarlierNonces == {0, 9, 10, 109}

InitNonce ==
    \E key \in ApiKeys, n \in {RateLimitPoints - 2, RateLimitPoints - 1},
       na \in EarlierNonces :
        /\ ServiceInit([Deployed EXCEPT !.nonces[Buyer] = na])
        /\ API_KEY = key
        /\ limiter = [NoPoints EXCEPT !["ip1"] = n]
        /\ answered = Answer(HttpRequest("/health", "ip1", NoApiKey), 200, "")
        /\ ClockInit(NoPoints)
        /\ admitted = [r \in Reqs |-> NotAdmitted]
        /\ lookup = IdleLookup

NextNonce ==
    \/ \E k \in ApiKeys, a \in AddressTexts : HttpNonce("ip1", k, a)
    \/ NonceRead
    \/ NonceReadError
    \/ RelayedElsewhere

SpecNonce == InitNonce /\ [][NextNonce]_vars

(***************************************************************************)
(* SpecContract: the deployed contracts alone. Any account calls any       *)
(* function of LiskEscrow, EscrowRelayer and USDC with any arguments, and  *)
(* block.timestamp advances; a call that reverts changes nothing.          *)
(***************************************************************************)
\* an account that is no party, no owner and no relayer at deployment
Stranger == "mallory"

\* the accounts that call the owner-only and relayer-only functions
Admins == {RelayerAccount, Stranger}

\* block.timestamp at deployment (positive, as on every chain)
Genesis == 1
BlockTimes == Genesis..(MaxTime + 1)

\* deadlines before, at and after the blocks of the model
ContractCreateFields ==
    {[f EXCEPT !.deliveryDeadline = d] : f \in CreateFields, d \in BlockTimes}

ContractRequests(ids) ==
    {p \in HonestRequests(ids) : p.variant # "CreateEscrow"}
    \cup UNION {{Params("CreateEscrow", Buyer, f, signature) :
                    signature \in HonestSignatures("CreateEscrow", Buyer, f)} :
                f \in {g \in ContractCreateFields : g.seller = Seller}}

DirectFns == {"createEscrow", "fundEscrow", "storeDocumentHash",
              "confirmDelivery", "initiateDispute", "cancelEscrow"}
OwnerFns == {"resolveDispute", "updateTrustedForwarder"}
MetaFns == {"createEscrowMeta", "fundEscrowMeta", "confirmDeliveryMeta",
            "storeDocumentHashMeta"}
RelayFns == {"relayCreateEscrow", "relayFundEscrow", "relayConfirmDelivery",
             "relayStoreDocument"}
RelayerAdminFns == {"authorizeRelayer", "revokeRelayer", "transferOwnership"}

MetaFnOf(variant) ==
    CASE variant = "CreateEscrow" -> "createEscrowMeta"
      [] variant = "FundEscrow" -> "fundEscrowMeta"
      [] variant = "ConfirmDelivery" -> "confirmDeliveryMeta"
      [] variant = "StoreDocument" -> "storeDocumentHashMeta"

\* a call: the function, msg.sender and the arguments
CallOf(fn, sender, p, target, flag) ==
    [fn |-> fn, sender |-> sender, p |-> p, target |-> target, flag |-> flag]

\* the call c made in chain state s
Invoke(s, c) ==
    LET p == c.p IN
    CASE c.fn = "createEscrow" ->
           createEscrow(s, c.sender, p.seller, p.amount, p.token,
                        p.deliveryDeadline)
      [] c.fn = "fundEscrow" -> fundEscrow(s, c.sender, p.escrowId)
      [] c.fn = "storeDocumentHash" ->
           storeDocumentHash(s, c.sender, p.escrowId, p.documentHash)
      [] c.fn = "confirmDelivery" -> confirmDelivery(s, c.sender, p.escrowId)
      [] c.fn = "initiateDispute" -> initiateDispute(s, c.sender, p.escrowId)
      [] c.fn = "cancelEscrow" -> cancelEscrow(s, c.sender, p.escrowId)
      [] c.fn = "resolveDispute" ->
           resolveDispute(s, c.sender, p.escrowId, c.flag)
      [] c.fn = "updateTrustedForwarder" ->
           updateTrustedForwarder(s, c.sender, c.target)
      [] c.fn = "createEscrowMeta" ->
           createEscrowMeta(s, c.sender, p.seller, p.amount, p.token,
                            p.deliveryDeadline, p.actor, p.signature)
      [] c.fn = "fundEscrowMeta" ->
           fundEscrowMeta(s, c.sender, p.escrowId, p.actor, p.signature)
      [] c.fn = "confirmDeliveryMeta" ->
           confirmDeliveryMeta(s, c.sender, p.escrowId, p.actor, p.signature)
      [] c.fn = "storeDocumentHashMeta" ->
           storeDocumentHashMeta(s, c.sender, p.escrowId, p.documentHash,
                                 p.actor, p.signature)
      [] c.fn \in RelayFns -> ExecRelay(s, c.sender, RelayCall(c.fn, p))
      [] c.fn = "authorizeRelayer" -> authorizeRelayer(s, c.sender, c.target)
      [] c.fn = "revokeRelayer" -> revokeRelayer(s, c.sender, c.target)
      [] c.fn = "transferOwnership" -> transferOwnership(s, c.sender, c.target)
      [] OTHER -> Revert(s)

\* the signature of the call is the actor's, over the call's fields and the
\* actor's nonce in state s
SignedNow(s, p) ==
    /\ p.signature.wellFormed
    /\ Recover(p.signature, MessageOf(p, NonceOf(s, p.actor))) = p.actor

\* what the history keeps of the call c and of its outcome
CallRecord(s, c, res) ==
    [fn |-> c.fn, sender |-> c.sender, target |-> c.target,
     signer |-> IF c.fn \in MetaFns \cup RelayFns
                THEN c.p.signature.signer ELSE ZERO,
     type |-> IF c.fn \in MetaFns \cup RelayFns
              THEN c.p.signature.msg.type ELSE "none",
     signed |-> c.fn \in MetaFns \cup RelayFns /\ SignedNow(s, c.p),
     ok |-> res.ok]

\* the call c is made: it takes effect, or it reverts and changes nothing
Call(c) ==
    LET res == Invoke(Chain, c) IN
    /\ res.ok => WithinBounds(res.state)
    /\ SetChain(res.state)
    /\ called' = CallRecord(Chain, c, res)
    /\ executed' = IF c.fn \in MetaFns \cup RelayFns
                   THEN Executed(executed, res, c.p) ELSE executed
    /\ UNCHANGED <<relayerBalance, now, httpVars, envVars, txs, req>>

NoTarget == ZERO

\* the arguments of a call that names an escrow
EscrowArgs == {Params("none", ZERO, f, MalformedSignature) :
                  f \in FieldsOf("StoreDocument", DOMAIN escrows)}

\* a party calls LiskEscrow for itself
EscrowCall ==
    \E u \in Users :
        LET creates == {Params("none", ZERO, f, MalformedSignature) :
                           f \in {g \in ContractCreateFields :
                                     g.seller = Seller}} IN
        \E fn \in DirectFns :
            \E p \in IF fn = "createEscrow" THEN creates ELSE EscrowArgs :
                Call(CallOf(fn, u, p, NoTarget, FALSE))

\* an account calls resolveDispute
ResolveCall ==
    \E a \in Admins, p \in EscrowArgs, refundBuyer \in BOOLEAN :
        Call(CallOf("resolveDispute", a, p, NoTarget, refundBuyer))

\* an account calls updateTrustedForwarder
ForwarderCall ==
    LET targets == {ZERO, EscrowRelayer, Stranger} IN
    \E a \in Admins, newForwarder \in targets :
        Call(CallOf("updateTrustedForwarder", a, NoParams, newForwarder, FALSE))

\* an account calls a meta entry point of LiskEscrow itself, with a signed
\* message of a party
MetaCall ==
    \E a \in Admins, p \in ContractRequests(DOMAIN escrows) :
        Call(CallOf(MetaFnOf(p.variant), a, p, NoTarget, FALSE))

\* an account calls a relay function of EscrowRelayer
RelayerCall(senders) ==
    \E a \in senders, p \in ContractRequests(DOMAIN escrows) :
        Call(CallOf(MethodOf(p.variant), a, p, NoTarget, FALSE))

\* an account calls an owner-only function of EscrowRelayer
RelayerAdminCall ==
    LET targets == Admins \cup {ZERO} IN
    \E a \in Admins, fn \in RelayerAdminFns, target \in targets :
        Call(CallOf(fn, a, NoParams, target, FALSE))

\* USDC: the buyer is given a token, approves LiskEscrow or spends a token
TokenCall ==
    /\ \/ balanceOf[Buyer] < MaxTokens /\ SetChain(mint(Chain, Buyer, 1))
       \/ \E a \in 0..MaxTokens :
             allowance[Buyer] # a /\ SetChain(approve(Chain, Buyer, a))
       \/ balanceOf[Buyer] > 0 /\ SetChain(transfer(Chain, Buyer, 1))
    /\ called' = [NoCall EXCEPT !.fn = "USDC", !.sender = Buyer, !.ok = TRUE]
    /\ UNCHANGED <<relayerBalance, now, httpVars, envVars, txs, req, executed>>

\* a block with a later timestamp is produced
Tick ==
    /\ now < MaxTime + 1
    /\ now' = now + 1
    /\ called' = NoCall
    /\ UNCHANGED <<nonces, escrows, escrowDocuments, trustedForwarder,
                   authorizedRelayers, owner, balanceOf, allowance,
                   relayerBalance, httpVars, envVars, txs, req, executed>>

InitContract == InitWith([Deployed EXCEPT !.now = Genesis])

\* the life of the escrows: the parties, the owner and the relayer account
NextContract ==
    \/ EscrowCall
    \/ ResolveCall
    \/ RelayerCall({RelayerAccount})
    \/ TokenCall
    \/ Tick

SpecContract == InitContract /\ [][NextContract]_vars

(***************************************************************************)
(* SpecAccess: who may call what. Any account calls the owner-only         *)
(* functions, the relay functions and the meta entry points.               *)
(***************************************************************************)
NextAccess ==
    \/ ForwarderCall
    \/ RelayerAdminCall
    \/ MetaCall
    \/ RelayerCall(Admins)

SpecAccess == InitContract /\ [][NextAccess]_vars

(***************************************************************************)
(* SpecDeadline: one CreateEscrow or FundEscrow request signed by the      *)
(* buyer, with deadlines before, at and after the block time, while        *)
(* blocks are produced                                                     *)
(***************************************************************************)
DeadlineRequests ==
    {p \in ContractRequests(DOMAIN escrows) :
        p.variant \in {"CreateEscrow", "FundEscrow"}}

InitDeadline ==
    \E s \in {Deployed, AfterCreate} : InitWith([s EXCEPT !.now = Genesis])

NextDeadline ==
    \/ ReceiveFrom({1}, DeadlineRequests)
    \/ \E r \in Reqs : VerifySignature(r)
    \/ \E r \in Reqs : CheckRelayerBalance(r)
    \/ \E r \in Reqs : GetEscrowDetails(r)
    \/ \E r \in Reqs : GetUserBalance(r)
    \/ \E r \in Reqs : GetUserAllowance(r)
    \/ \E r \in Reqs : EstimateGas(r)
    \/ \E r \in Reqs : Simulate(r)
    \/ \E r \in Reqs : WriteContract(r)
    \/ \E r \in Reqs : AwaitReceipt(r)
    \/ \E r \in Reqs : ReceiptTimeout(r)
    \/ \E r \in Reqs : RpcError(r)
    \/ Mine
    \/ Tick

SpecDeadline == InitDeadline /\ [][NextDeadline]_vars

(***************************************************************************)
(* SpecGasPrice: requests against a funded escrow setup, for the gas       *)
(* prices of the network and the multipliers the operator may configure    *)
(***************************************************************************)
GasPrices == {1, 20, 100, 333}

\* GAS_PRICE_MULTIPLIER unset, or 0.5, 1, 1.1, 1.15, 1.5 and 2
Multipliers == {UnsetMultiplier, 50, 100, 110, 115, 150, 200}

\* the network's gas price changes
GasPriceChange ==
    /\ \E price \in GasPrices : price # gasPrice /\ gasPrice' = price
    /\ UNCHANGED <<chainVars, httpVars, GAS_PRICE_MULTIPLIER, timeVars,
                   callVars, txs, req, executed, called>>

InitGasPrice ==
    \E price \in GasPrices, multiplier \in Multipliers :
        /\ ServiceInitEnv(AfterCreate, price, multiplier)
        /\ HttpInit(NoApiKey, NoPoints)

NextGasPrice ==
    \/ ReceiveFrom({1}, {p \in HonestRequests(DOMAIN escrows) :
                            p.variant = "FundEscrow"})
    \/ \E r \in Reqs : VerifySignature(r)
    \/ \E r \in Reqs : GetEscrowDetails(r)
    \/ \E r \in Reqs : GetUserBalance(r)
    \/ \E r \in Reqs : GetUserAllowance(r)
    \/ \E r \in Reqs : EstimateGas(r)
    \/ \E r \in Reqs : Simulate(r)
    \/ \E r \in Reqs : WriteContract(r)
    \/ \E r \in Reqs : AwaitReceipt(r)
    \/ \E r \in Reqs : ReceiptTimeout(r)
    \/ \E r \in Reqs : RpcError(r)
    \/ Mine
    \/ GasPriceChange

SpecGasPrice == InitGasPrice /\ [][NextGasPrice]_vars

(***************************************************************************)
(* Properties                                                              *)
(***************************************************************************)
Range(seq) == {seq[i] : i \in DOMAIN seq}

IsPrefix(a, b) == Len(a) <= Len(b) /\ \A i \in 1..Len(a) : a[i] = b[i]

\* the transactions request r has sent
TxsOf(r) == {i \in DOMAIN txs : txs[i].req = r}

\* a gas estimation call has been issued for the request
EstimationIssued(q) == q.pc = "estimateGas" \/ q.estimateCalls > 0

\* the request has issued no estimation, no simulation and no write
NothingIssued(r) ==
    /\ ~EstimationIssued(req[r])
    /\ req[r].simulateCalls = 0
    /\ req[r].writeCalls = 0
    /\ req[r].tx = 0
    /\ TxsOf(r) = {}

\* the request carries a signature its claimed actor made over a nonce the
\* contract had already passed when the request arrived
IsReplay(q) ==
    /\ q.pc # "idle"
    /\ q.params.signature.wellFormed
    /\ q.params.signature.signer = q.params.actor
    /\ q.params.signature.msg.nonce < q.nonceAtReceive

\* C1 (replay rejection): a request of any of the four variants that carries
\* a signature its actor made over a nonce N, arriving once the contract's
\* nonce of the actor is past N, never passes signature verification: it is
\* waiting for the nonce read or has failed (with "Invalid signature", or
\* with the error of the read), and no gas estimation, simulation or
\* submission is ever issued for it.
ReplayRejected ==
    \A r \in Reqs :
        IsReplay(req[r]) =>
            /\ "Verified" \notin Range(req[r].stages)
            /\ req[r].pc \in {"getNonce", "failed"}
            /\ req[r].pc = "failed" =>
                  req[r].error \in {"Invalid signature", "RPC error"}
            /\ NothingIssued(r)

\* C1 witness: a request replaying, field for field, a
\* signature that has already executed on the chain has been rejected at
\* signature verification.
ReplayRejectedWitness ==
    \E r \in Reqs :
        /\ IsReplay(req[r])
        /\ <<req[r].params.actor, req[r].params.signature.msg.nonce>>
              \in DOMAIN executed
        /\ req[r].params.signature.msg =
              MessageOf(req[r].params, req[r].params.signature.msg.nonce)
        /\ req[r].pc = "failed"
        /\ req[r].error = "Invalid signature"

\* C2 (nonce single use): for every address A and nonce N, at most one
\* meta-transaction signed by A over N ever executes successfully, whatever
\* direct calls, other relayed calls and the pipeline's own transactions
\* interleave; any further one reverts.
NonceSingleUse ==
    \A k \in DOMAIN executed : executed[k] <= 1

\* C2 witness: a transaction of the pipeline carrying a signature whose
\* (signer, nonce) had already executed was mined and reverted.
NonceSingleUseWitness ==
    \E i \in DOMAIN txs :
        LET sig == txs[i].call.signature IN
        /\ txs[i].status = "reverted"
        /\ sig.wellFormed
        /\ <<sig.signer, sig.msg.nonce>> \in DOMAIN executed
        /\ executed[<<sig.signer, sig.msg.nonce>>] = 1

\* C3 (truthful success), as the claim states it: whenever a request has
\* answered success: true, its transaction was mined with a successful
\* status.
TruthfulSuccess ==
    \A r \in Reqs :
        (req[r].pc = "done" /\ req[r].result.success) =>
            /\ req[r].tx \in DOMAIN txs
            /\ txs[req[r].tx].status = "success"

\* two requests of the same actor, each verified against the same nonce
Racing(r1, r2) ==
    /\ r1 # r2
    /\ "Verified" \in Range(req[r1].stages)
    /\ "Verified" \in Range(req[r2].stages)
    /\ req[r1].params.actor = req[r2].params.actor
    /\ req[r1].nonce = req[r2].nonce

Mined(r, status) ==
    /\ req[r].tx \in DOMAIN txs
    /\ txs[req[r].tx].status = status

\* the step mines transaction i
Mines(i) == txs[i].status = "pending" /\ txs'[i].status # "pending"

\* C4 (same-address race): when two requests of the same actor, signed over
\* the same nonce, have both passed verification, at most one of their
\* transactions succeeds on the chain; a transaction that succeeds advances
\* its actor's nonce by exactly one (and no other nonce), and one that
\* reverts changes no contract state.
SameAddressRace ==
    /\ [](\A r1, r2 \in Reqs :
             Racing(r1, r2) => ~(Mined(r1, "success") /\ Mined(r2, "success")))
    /\ [][\A i \in DOMAIN txs :
             Mines(i) =>
                IF txs'[i].status = "success"
                THEN \A a \in DOMAIN nonces :
                        nonces'[a] = IF a = txs[i].call.actor
                                     THEN nonces[a] + 1 ELSE nonces[a]
                ELSE UNCHANGED chainVars]_vars

\* C4 witness: two ConfirmDelivery requests of the buyer, both verified
\* against the same nonce, have both been submitted and mined: one succeeded,
\* the other reverted, and the buyer's nonce is one past the nonce signed.
SameAddressRaceWitness ==
    \E r1, r2 \in Reqs :
        /\ Racing(r1, r2)
        /\ req[r1].params.variant = "ConfirmDelivery"
        /\ req[r2].params.variant = "ConfirmDelivery"
        /\ Mined(r1, "success")
        /\ Mined(r2, "reverted")
        /\ nonces[req[r1].params.actor] = req[r1].nonce + 1

\* C5 (at most one submission per request): a request calls estimateGas,
\* simulateContract and writeContract at most once each, sends at most one
\* transaction, and a request that failed before its write has sent none.
AtMostOneSubmission ==
    \A r \in Reqs :
        /\ req[r].estimateCalls <= 1
        /\ req[r].simulateCalls <= 1
        /\ req[r].writeCalls <= 1
        /\ Cardinality(TxsOf(r)) <= req[r].writeCalls
        /\ (req[r].pc = "failed" /\ "Simulated" \notin Range(req[r].stages)) =>
              (req[r].writeCalls = 0 /\ TxsOf(r) = {})

\* C5 witness: a request whose receipt did not arrive in time has failed
\* after its one submission, and its transaction is the only one it sent.
AtMostOneSubmissionWitness ==
    \E r \in Reqs :
        /\ req[r].pc = "failed"
        /\ req[r].error = "receipt timeout"
        /\ req[r].writeCalls = 1
        /\ TxsOf(r) = {req[r].tx}

\* the number of pipeline stages completed when a request awaits a call
StagesAt(pc) ==
    CASE pc = "getNonce" -> 1
      [] pc \in {"getRelayerBalance", "getEscrowDetails", "getUserBalance",
                 "getUserAllowance"} -> 2
      [] pc = "estimateGas" -> 3
      [] pc = "simulateContract" -> 4
      [] pc = "writeContract" -> 5
      [] pc = "waitForTransactionReceipt" -> 6
      [] pc = "done" -> 7

StagesInOrder(r) ==
    LET q == req[r]
        n == Len(q.stages) IN
    /\ q.pc = "idle" => q.stages = <<>>
    /\ q.pc \notin {"idle", "failed"} =>
          q.stages = SubSeq(Pipeline, 1, StagesAt(q.pc))
    /\ q.pc = "failed" =>
          /\ n >= 2
          /\ q.stages[n] = "Failed"
          /\ n - 1 < Len(Pipeline)
          /\ SubSeq(q.stages, 1, n - 1) = SubSeq(Pipeline, 1, n - 1)
    /\ "GasEstimated" \in Range(q.stages) => q.estimateCalls = 1
    /\ "Simulated" \in Range(q.stages) => q.simulateCalls = 1
    /\ "Submitted" \in Range(q.stages) =>
          (q.writeCalls = 1 /\ TxsOf(r) = {q.tx})
    /\ "Confirmed" \in Range(q.stages) => txs[q.tx].status # "pending"

\* C6 (pipeline order): the stages a request has completed are always an
\* initial part of Received, Verified, Preflighted, GasEstimated, Simulated,
\* Submitted, Confirmed, with no stage skipped or reordered, followed by
\* Failed when the request failed; a request past Submitted has had its
\* estimation and its simulation succeed; and a request that is Confirmed or
\* Failed never changes again.
PipelineOrder ==
    /\ [](\A r \in Reqs : StagesInOrder(r))
    /\ [][\A r \in Reqs :
             req[r].pc \in {"done", "failed"} => req'[r] = req[r]]_vars

\* C6 witness: a FundEscrow request has gone through every stage to
\* Confirmed.
PipelineOrderWitness ==
    \E r \in Reqs :
        /\ req[r].params.variant = "FundEscrow"
        /\ req[r].pc = "done"
        /\ req[r].stages = Pipeline

\* C7 (serialized submission), as the claim states it: at no time do two
\* requests have a transaction submission (writeContract) in flight.
SerializedSubmission ==
    Cardinality({r \in Reqs : req[r].pc = "writeContract"}) <= 1

\* the signature was made by the claimed actor over the message the service
\* rebuilds from the request's fields and the nonce it read
Genuine(q) ==
    /\ q.params.signature.wellFormed
    /\ q.params.signature.signer = q.params.actor
    /\ q.params.signature.msg = MessageOf(q.params, q.nonce)

\* C8 (signer equals claimed actor): once the nonce read has returned, a
\* request is past verification only if its signature was made by the
\* claimed actor over exactly the request's fields and the nonce read; a
\* signature by another key, or over other fields, another message type or
\* another nonce, leaves the request Failed, never Verified, with nothing
\* submitted.
SignerIsActor ==
    \A r \in Reqs :
        (req[r].pc \notin {"idle", "getNonce"} /\ ~Genuine(req[r])) =>
            /\ req[r].pc = "failed"
            /\ "Verified" \notin Range(req[r].stages)
            /\ NothingIssued(r)

\* C8 witness: a request signed by another key, over exactly the message
\* the service rebuilt, has failed at verification.
SignerIsActorWitness ==
    \E r \in Reqs :
        /\ req[r].pc = "failed"
        /\ req[r].error = "Invalid signature"
        /\ req[r].params.signature.wellFormed
        /\ req[r].params.signature.signer # req[r].params.actor
        /\ req[r].params.signature.msg = MessageOf(req[r].params, req[r].nonce)

\* the three preflight reads of a FundEscrow request have returned and the
\* buyer's balance read is below the escrow's amount read
FundBalanceShort(q) ==
    /\ q.params.variant = "FundEscrow"
    /\ {"getEscrowDetails", "getUserBalance", "getUserAllowance"} \subseteq q.reads
    /\ q.userBalance < q.escrowAmount

\* C9 (fund, insufficient balance): a FundEscrow request whose buyer balance
\* read is below the escrow's amount read fails with "Insufficient USDC
\* balance" before any gas estimation call is issued, and sends nothing.
InsufficientBalanceRejected ==
    \A r \in Reqs :
        FundBalanceShort(req[r]) =>
            /\ req[r].pc = "failed"
            /\ req[r].error = "Insufficient USDC balance"
            /\ NothingIssued(r)

\* C9 witness: a verified FundEscrow request for an escrow of amount 1,
\* whose buyer holds no tokens, has been rejected.
InsufficientBalanceWitness ==
    \E r \in Reqs :
        /\ FundBalanceShort(req[r])
        /\ req[r].escrowAmount = 1
        /\ req[r].userBalance = 0
        /\ req[r].pc = "failed"
        /\ req[r].error = "Insufficient USDC balance"

\* C10 (relayer underfunded), as the claim states it for all four variants:
\* while the relayer's native balance is below the floor, no request has a
\* gas estimation call issued for it.
UnderfundedRejectedAllVariants ==
    [][\A r \in Reqs :
          ~(/\ relayerBalance < MinRelayerBalance
            /\ req[r].pc # "estimateGas"
            /\ req'[r].pc = "estimateGas")]_vars

\* C10, for the variant that makes the check: a CreateEscrow request whose
\* read of the relayer's balance returned less than the floor fails with
\* "Relayer balance too low" and issues no gas estimation, simulation or
\* submission; and no CreateEscrow request has a gas estimation issued
\* unless that read returned at least the floor.
UnderfundedCreateRejected ==
    \A r \in Reqs :
        req[r].params.variant = "CreateEscrow" =>
            /\ ("getRelayerBalance" \in req[r].reads
                  /\ req[r].balance < MinRelayerBalance) =>
                  /\ req[r].pc = "failed"
                  /\ req[r].error = "Relayer balance too low"
                  /\ NothingIssued(r)
            /\ EstimationIssued(req[r]) =>
                  /\ "getRelayerBalance" \in req[r].reads
                  /\ req[r].balance >= MinRelayerBalance

\* C10 witness: a verified CreateEscrow request was rejected because the
\* relayer's balance read was below the floor.
UnderfundedCreateWitness ==
    \E r \in Reqs :
        /\ req[r].params.variant = "CreateEscrow"
        /\ "Verified" \in Range(req[r].stages)
        /\ req[r].balance < MinRelayerBalance
        /\ req[r].pc = "failed"
        /\ req[r].error = "Relayer balance too low"

\* C11 (fund, escrow not found), as the claim states it: a FundEscrow request
\* naming an escrow id that is not on the contract never has a gas
\* estimation call issued for it, and has failed once its preflight reads
\* have returned.
EscrowNotFoundRejected ==
    \A r \in Reqs :
        (/\ req[r].params.variant = "FundEscrow"
         /\ req[r].params.escrowId \notin DOMAIN escrows) =>
            /\ ~EstimationIssued(req[r])
            /\ {"getEscrowDetails", "getUserBalance", "getUserAllowance"}
                  \subseteq req[r].reads => req[r].pc = "failed"

\* C12 (malformed signature fail-fast), as the claim states it for every
\* variant: a request whose signature is not a 0x-prefixed 65-byte value has
\* failed as soon as it was received, with no nonce read issued for it.
MalformedSignatureRejectedFirst ==
    \A r \in Reqs :
        (req[r].pc # "idle" /\ ~SignatureFormatOk(req[r].params.signature)) =>
            /\ req[r].pc = "failed"
            /\ req[r].reads = {}

\* C13 (as the claim states it): once a client's 100 points of the window are
\* consumed, every further request of that client that reaches the rate
\* limiter is answered 429 with a retryAfter that is strictly positive
RateLimitRejectsWithPositiveRetry ==
    [][\A c \in Clients :
          (limiter[c] >= RateLimitPoints /\ limiter'[c] > limiter[c]) =>
              /\ answered'.client = c
              /\ answered'.status = 429
              /\ answered'.retryAfter > 0]_vars

\* C14 (as the claim states it): a GET /health request is answered with the
\* health body whatever points its client has consumed, and consumes no point
HealthBypassesRateLimit ==
    [][answered'.path = "/health" /\ answered' # answered =>
          /\ answered'.status = 200
          /\ limiter' = limiter]_vars

\* a relay request is answered in this step
RelayAnswered == answered' # answered /\ answered'.path \in RelayPaths

\* the step leaves the chain, the pipeline and the transactions alone
NoPipelineStep == UNCHANGED <<chainVars, req, txs, executed, called, envVars, admitted>>

\* C15 (gate first): a relay request enters the pipeline only after the rate
\* limiter let it through with a point of the window, and at that moment it
\* has read nothing from the chain; a request the limiter rejects with 429
\* causes no chain read, no verification and no submission
GateFirst ==
    /\ [](\A r \in Reqs :
            req[r].pc # "idle" => admitted[r].points \in 1..RateLimitPoints)
    /\ [][\A r \in Reqs :
            admitted'[r] # admitted[r] =>
                /\ req[r].pc = "idle"
                /\ limiter'[admitted'[r].request.client] = admitted'[r].points
                /\ req'[r].reads = {}
                /\ NothingIssued(r)']_vars
    /\ [][RelayAnswered /\ answered'.status = 429 => NoPipelineStep]_vars

\* C15 witness: a relay request with every field present was rejected with
\* 429 and no pipeline was started
GateFirstWitness ==
    /\ answered.status = 429
    /\ answered.path \in RelayPaths
    /\ ~MissingRequiredField(answered.request.body)
    /\ SignatureFormatOk(answered.request.body.params.signature)
    /\ \A r \in Reqs : req[r].pc = "idle"

MalformedAnswered500 ==
    \E r \in Reqs :
        /\ admitted[r].points > 0
        /\ ~SignatureFormatOk(req[r].params.signature)
        /\ RelayResponse(req[r]).status = 500

\* a nonce request that passed both middlewares is answered in this step
NonceAnswered ==
    /\ answered' # answered
    /\ answered'.path = "/nonce"
    /\ answered'.status \notin {401, 429}

\* the answer to a well-formed address: the nonce the contract holds for it
\* when the read returns, in decimal digits; 500 when the read throws
NonceReturned ==
    /\ lookup.pc = "getNonce"
    /\ answered'.request = lookup.request
    /\ answered'.status \in {200, 500}
    /\ answered'.status = 200 =>
          answered'.nonce =
             DecimalString(NonceOf(Chain, AccountAt(answered'.request.address)))

\* C17 (as the claim states it): GET /nonce/:address answers 400 for every
\* address string that does not match 0x and 40 hex characters, with no chain
\* read; for a matching address it returns the contract's current nonce as a
\* decimal string
NonceRouteRejectsEveryBadAddress ==
    /\ [][NonceAnswered =>
            IF AddressFormatOk(answered'.request.address)
            THEN NonceReturned
            ELSE answered'.status = 400 /\ lookup' = lookup]_vars
    /\ [](lookup.pc = "getNonce" => AddressFormatOk(lookup.request.address))

\* the same for the address strings that reach the handler: one non-empty
\* path segment; the others are answered 404, also with no chain read
NonceRouteRejectsBadAddress ==
    /\ [][NonceAnswered =>
            IF AddressFormatOk(answered'.request.address)
            THEN NonceReturned
            ELSE /\ lookup' = lookup
                 /\ answered'.status =
                       IF NonceRouteMatches(answered'.request.address)
                       THEN 400 ELSE 404]_vars
    /\ [](lookup.pc = "getNonce" => AddressFormatOk(lookup.request.address))

\* a nonce of two digits or more was returned
NonceReturnedInDecimal ==
    /\ answered.path = "/nonce"
    /\ answered.status = 200
    /\ Len(answered.nonce) >= 2

\* the EscrowCreated logs of a receipt
CreatedLogs(receipt) ==
    {i \in DOMAIN receipt.logs :
        /\ Len(receipt.logs[i].topics) > 0
        /\ receipt.logs[i].topics[1] = "EscrowCreated"}

\* a CreateEscrow request whose receipt has arrived
CreateConfirmed(r) ==
    req[r].pc = "done" /\ req[r].params.variant = "CreateEscrow"

\* C18 (CreateEscrow id fallback): when the receipt of a CreateEscrow request
\* has no EscrowCreated log, the result is success: true with escrowId equal
\* to the receipt's transaction hash; when it has one, escrowId is the first
\* indexed topic of that log, the id of the escrow the transaction created
CreateIdFallback ==
    \A r \in Reqs :
        CreateConfirmed(r) =>
            LET q == req[r]
                receipt == txs[q.tx] IN
            /\ q.result.success
            /\ q.result.transactionHash = q.tx
            /\ CreatedLogs(receipt) = {} => q.result.escrowId = HashAsId(q.tx)
            /\ CreatedLogs(receipt) # {} =>
                  /\ \E i \in CreatedLogs(receipt) :
                        /\ \A j \in CreatedLogs(receipt) : i <= j
                        /\ q.result.escrowId = receipt.logs[i].topics[2]
                  /\ q.result.escrowId \in DOMAIN escrows
                  /\ escrows[q.result.escrowId].buyer = q.params.actor
                  /\ escrows[q.result.escrowId].seller = q.params.seller

\* C18 witness: of two CreateEscrow requests, one returned the id of the
\* escrow its transaction created and the other, whose receipt has no
\* EscrowCreated log, returned its transaction hash as the id
CreateIdFallbackWitness ==
    \E r1, r2 \in Reqs :
        /\ CreateConfirmed(r1)
        /\ CreateConfirmed(r2)
        /\ CreatedLogs(txs[req[r1].tx]) # {}
        /\ req[r1].result.escrowId \in DOMAIN escrows
        /\ CreatedLogs(txs[req[r2].tx]) = {}
        /\ req[r2].result.escrowId = HashAsId(req[r2].tx)

\* the call of request r reverts against the chain as it is now
WouldRevert(r) ==
    ~ExecRelay(Chain, RelayerAccount,
               RelayCall(MethodOf(req[r].params.variant), req[r].params)).ok

\* the escrow the request names is not in a status its call accepts
WrongStatus(r) ==
    LET status == EscrowAt(Chain, req[r].params.escrowId).status IN
    \/ /\ req[r].params.variant = "ConfirmDelivery"
       /\ status # "DOCUMENTS_PENDING"
    \/ /\ req[r].params.variant = "StoreDocument"
       /\ status \notin {"FUNDED", "DOCUMENTS_PENDING"}

\* the awaited call of request r returns or throws in this step
Returns(r, call) == req[r].pc = call /\ req'[r].pc # call

\* a request that has failed stays as it is
FailedIsFinal ==
    \A r \in Reqs : req[r].pc = "failed" => req'[r] = req[r]

\* C19 (revert caught at estimation): when the estimation of a request's call
\* returns while the call would revert against the chain (for example a
\* ConfirmDelivery on an escrow that is not DOCUMENTS_PENDING, or a
\* StoreDocument on one that is neither FUNDED nor DOCUMENTS_PENDING), the
\* request fails there; a request that failed before completing estimation
\* was never simulated and sent no transaction, and never does
RevertCaughtAtEstimation ==
    /\ [][\A r \in Reqs :
            (Returns(r, "estimateGas") /\ (WouldRevert(r) \/ WrongStatus(r))) =>
                /\ req'[r].pc = "failed"
                /\ "GasEstimated" \notin Range(req'[r].stages)]_vars
    /\ [](\A r \in Reqs :
            (req[r].pc = "failed" /\ "GasEstimated" \notin Range(req[r].stages)) =>
                /\ req[r].simulateCalls = 0
                /\ req[r].writeCalls = 0
                /\ req[r].tx = 0
                /\ TxsOf(r) = {})
    /\ [][FailedIsFinal]_vars

\* C19 witness: a ConfirmDelivery request on an escrow that is not
\* DOCUMENTS_PENDING failed at gas estimation, with nothing simulated or sent
RevertCaughtAtEstimationWitness ==
    \E r \in Reqs :
        /\ req[r].params.variant = "ConfirmDelivery"
        /\ req[r].params.escrowId \in DOMAIN escrows
        /\ escrows[req[r].params.escrowId].status # "DOCUMENTS_PENDING"
        /\ req[r].pc = "failed"
        /\ req[r].error = "gas estimation reverted"
        /\ req[r].estimateCalls = 1
        /\ req[r].simulateCalls = 0
        /\ TxsOf(r) = {}

\* C20 (simulation failure aborts): when the simulation of a request's call
\* returns while the call would revert against the chain, the request fails
\* there and no transaction is sent in that step; a request that failed
\* before completing simulation has sent no transaction, and never does
SimulationFailureAborts ==
    /\ [][\A r \in Reqs :
            (Returns(r, "simulateContract") /\ WouldRevert(r)) =>
                /\ req'[r].pc = "failed"
                /\ "Simulated" \notin Range(req'[r].stages)
                /\ txs' = txs]_vars
    /\ [](\A r \in Reqs :
            (req[r].pc = "failed" /\ "Simulated" \notin Range(req[r].stages)) =>
                /\ req[r].writeCalls = 0
                /\ req[r].tx = 0
                /\ TxsOf(r) = {})
    /\ [][\A r \in Reqs :
            (req[r].pc = "failed" /\ TxsOf(r) = {}) =>
                /\ req'[r] = req[r]
                /\ TxsOf(r)' = {}]_vars

\* C20 witness: a request passed gas estimation, the chain changed, and its
\* simulation failed; it sent no transaction
SimulationFailureAbortsWitness ==
    \E r \in Reqs :
        /\ req[r].pc = "failed"
        /\ req[r].error = "simulation reverted"
        /\ "GasEstimated" \in Range(req[r].stages)
        /\ req[r].simulateCalls = 1
        /\ req[r].writeCalls = 0
        /\ TxsOf(r) = {}

\* the request waits for the receipt of a transaction not mined yet
AwaitingUnmined(r) ==
    /\ req[r].pc = "waitForTransactionReceipt"
    /\ txs[req[r].tx].status = "pending"

\* C21 (confirmation timeout): a request that stops waiting for a receipt
\* while its transaction is not mined ends in Failed; from then on the
\* request never changes (its outcome stays the reported one) and sends no
\* further transaction, whatever happens to the transaction it sent
ConfirmationTimeout ==
    /\ [][\A r \in Reqs :
            (AwaitingUnmined(r) /\ req'[r] # req[r]) =>
                /\ req'[r].pc = "failed"
                /\ req'[r].tx = req[r].tx
                /\ req'[r].writeCalls = req[r].writeCalls]_vars
    /\ [][\A r \in Reqs :
            req[r].pc = "failed" =>
                /\ req'[r] = req[r]
                /\ TxsOf(r)' = TxsOf(r)
                /\ \A i \in TxsOf(r) : txs'[i].call = txs[i].call]_vars
    /\ [](\A r \in Reqs : Cardinality(TxsOf(r)) <= 1)

\* C21 witness: a request was reported failed for the receipt timeout and
\* its transaction was applied on the chain afterwards
ConfirmationTimeoutWitness ==
    \E r \in Reqs :
        /\ req[r].pc = "failed"
        /\ req[r].error = "receipt timeout"
        /\ txs[req[r].tx].status = "success"
        /\ executed[<<req[r].params.actor, req[r].params.signature.msg.nonce>>] = 1
        /\ RelayResponse(req[r]).status = 500

\* the last call was a meta-transaction signed by account a, and it succeeded
MetaSucceeded(a) ==
    /\ called.ok
    /\ called.fn \in MetaFns \cup RelayFns
    /\ called.signer = a

\* C22 (nonce monotonicity): in every step nonces[a] stays as it is, except
\* that a successful meta-transaction signed by a raises it by exactly one;
\* so it never decreases, and direct calls, reverted calls, token calls,
\* the owner's calls and the passing of time leave it unchanged.
NonceMonotonicity ==
    [][\A a \in Users :
          nonces'[a] = IF MetaSucceeded(a)' THEN nonces[a] + 1 ELSE nonces[a]]_vars

\* C22 witness: the buyer's nonce has been raised twice and the seller's once,
\* the last time by a relayed call that succeeded, with an escrow funded.
NonceMonotonicityWitness ==
    /\ nonces[Buyer] = 2
    /\ nonces[Seller] = 1
    /\ called.ok
    /\ called.fn \in RelayFns
    /\ \E e \in DOMAIN escrows : escrows[e].fundedAt > 0

\* the on-chain state the relayed calls read and write
OnChain == <<nonces, escrows, escrowDocuments, balanceOf, allowance>>

\* the request has failed at verification, preflight, gas estimation or
\* simulation: before anything was submitted
FailedBeforeSubmission(q) ==
    q.pc = "failed" /\ "Submitted" \notin Range(q.stages)

\* C23 (failure leaves the chain unchanged): every step a request takes up to
\* and including its failure at verification, preflight, gas estimation or
\* simulation leaves nonces, escrow records, token balances and allowances
\* exactly as they were; such a request has sent no transaction; and the
\* on-chain state changes only when a submitted transaction is mined.
FailureLeavesChainUnchanged ==
    /\ [][\A r \in Reqs :
            (req'[r] # req[r] /\ "Submitted" \notin Range(req'[r].stages))
                => OnChain' = OnChain]_vars
    /\ [][OnChain' # OnChain => \E i \in DOMAIN txs : Mines(i)]_vars
    /\ [](\A r \in Reqs : FailedBeforeSubmission(req[r]) => TxsOf(r) = {})

\* C23 witness: a request passed verification, preflight and gas estimation
\* and failed at simulation, having sent nothing, while the transaction of
\* the other request was mined and took effect.
FailureLeavesChainUnchangedWitness ==
    \E r \in Reqs :
        /\ FailedBeforeSubmission(req[r])
        /\ req[r].stages = <<"Received", "Verified", "Preflighted",
                            "GasEstimated", "Failed">>
        /\ req[r].simulateCalls = 1
        /\ TxsOf(r) = {}
        /\ \E i \in DOMAIN txs : txs[i].status = "success"

\* C24 (trusted forwarder only): a call of createEscrowMeta, fundEscrowMeta,
\* confirmDeliveryMeta or storeDocumentHashMeta by an address other than the
\* current trustedForwarder reverts and changes no state, whatever the
\* signature; trustedForwarder changes only in a successful
\* updateTrustedForwarder call made by the owner of LiskEscrow, and it is
\* never the zero address.
TrustedForwarderOnly ==
    /\ [][(called'.fn \in MetaFns /\ called'.sender # trustedForwarder)
            => (~called'.ok /\ Chain' = Chain)]_vars
    /\ [][trustedForwarder' # trustedForwarder
            => /\ called'.fn = "updateTrustedForwarder"
               /\ called'.sender = owner[LiskEscrow]
               /\ called'.ok]_vars
    /\ [](trustedForwarder # ZERO)

\* C24 witness: the owner has made another account the trusted forwarder;
\* the owner then called a meta entry point itself with a signature valid for
\* the signer's current nonce, and the call reverted.
TrustedForwarderOnlyWitness ==
    /\ trustedForwarder = Stranger
    /\ called.fn \in MetaFns
    /\ called.sender = owner[LiskEscrow]
    /\ called.signed
    /\ ~called.ok

\* the status changes LiskEscrow makes
StatusChanges ==
    {<<"CREATED", "FUNDED">>, <<"CREATED", "CANCELLED">>,
     <<"FUNDED", "DOCUMENTS_PENDING">>, <<"FUNDED", "DISPUTED">>,
     <<"DOCUMENTS_PENDING", "SETTLED">>, <<"DOCUMENTS_PENDING", "DISPUTED">>,
     <<"DISPUTED", "SETTLED">>}

\* C25 (escrow status machine): an escrow starts as CREATED and is never
\* removed; whatever direct, relayed or owner call is made, its status stays
\* or changes along one of the seven listed edges, so SETTLED and CANCELLED
\* are terminal; and a SETTLED escrow has been funded (fundedAt is set).
EscrowStatusMachine ==
    /\ [][\A e \in DOMAIN escrows' :
            IF e \in DOMAIN escrows
            THEN \/ escrows'[e].status = escrows[e].status
                 \/ <<escrows[e].status, escrows'[e].status>> \in StatusChanges
            ELSE escrows'[e].status = "CREATED"]_vars
    /\ [][DOMAIN escrows \subseteq DOMAIN escrows']_vars
    /\ [](\A e \in DOMAIN escrows :
            escrows[e].status = "SETTLED" => escrows[e].fundedAt > 0)

\* C25 witness: a dispute over a funded escrow was resolved by the owner: the
\* escrow went CREATED, FUNDED, DISPUTED, SETTLED.
EscrowStatusMachineWitness ==
    /\ called.fn = "resolveDispute"
    /\ called.ok
    /\ \E e \in DOMAIN escrows :
          /\ escrows[e].status = "SETTLED"
          /\ escrows[e].fundedAt > 0
          /\ ~escrows[e].documentsUploaded

\* C26 (end-to-end create), as the specification states it: once a
\* CreateEscrow request has returned success with escrowId E, getEscrowDetails(E)
\* yields status CREATED with the buyer, seller and amount of the request.
EndToEndCreate ==
    \A r \in Reqs :
        (CreateConfirmed(r) /\ req[r].result.success) =>
            LET details == EscrowAt(Chain, req[r].result.escrowId) IN
            /\ details.status = "CREATED"
            /\ details.buyer = req[r].params.actor
            /\ details.seller = req[r].params.seller
            /\ details.amount = req[r].params.amount

\* the request has not been submitted: it sent no transaction
NotSubmitted(r) == "Submitted" \notin Range(req[r].stages) /\ TxsOf(r) = {}

\* a CreateEscrow request whose deliveryDeadline was not in the future when it
\* arrived sends no transaction
CreateDeadlineGuard ==
    \A r \in Reqs :
        (/\ req[r].params.variant = "CreateEscrow"
         /\ req[r].params.deliveryDeadline <= req[r].receivedAt)
            => NotSubmitted(r)

\* a FundEscrow request for an escrow whose deliveryDeadline had passed when
\* it arrived sends no transaction
FundDeadlineGuard ==
    \A r \in Reqs :
        (/\ req[r].params.variant = "FundEscrow"
         /\ req[r].params.escrowId \in DOMAIN escrows
         /\ escrows[req[r].params.escrowId].deliveryDeadline < req[r].receivedAt)
            => NotSubmitted(r)

\* C27 (deadline guard), as the specification states it: a relay request whose
\* deadline has already passed (a CreateEscrow with a deliveryDeadline not in
\* the future, a FundEscrow on an escrow whose deliveryDeadline has passed) is
\* rejected before submission, and no escrow is created on-chain with a
\* deadline that was not in the future at its creation.
DeadlineGuard ==
    /\ CreateDeadlineGuard
    /\ FundDeadlineGuard
    /\ \A e \in DOMAIN escrows : escrows[e].deliveryDeadline > escrows[e].createdAt

\* C28 (authorized relayers only): a relay function of EscrowRelayer called
\* by an address that is not an authorized relayer reverts and changes
\* nothing; authorizedRelayers changes only in a successful authorizeRelayer
\* or revokeRelayer call made by the owner of EscrowRelayer; a successful
\* revokeRelayer(R) leaves R unauthorized, and R becomes authorized again
\* only by a successful authorizeRelayer(R), so until then every relay call
\* by R reverts.
AuthorizedRelayersOnly ==
    /\ [][(called'.fn \in RelayFns /\ called'.sender \notin authorizedRelayers)
            => (~called'.ok /\ Chain' = Chain)]_vars
    /\ [][authorizedRelayers' # authorizedRelayers
            => /\ called'.fn \in {"authorizeRelayer", "revokeRelayer"}
               /\ called'.sender = owner[EscrowRelayer]
               /\ called'.ok]_vars
    /\ [][(called'.fn = "revokeRelayer" /\ called'.ok)
            => called'.target \notin authorizedRelayers']_vars
    /\ [][\A R \in Admins :
            (R \notin authorizedRelayers /\ R \in authorizedRelayers')
                => /\ called'.fn = "authorizeRelayer"
                   /\ called'.target = R]_vars

\* C28 witness: the owner has revoked the relayer account and authorized
\* another one; the relayer account then called a relay function with a
\* signature valid for the signer's current nonce, and the call reverted.
AuthorizedRelayersOnlyWitness ==
    /\ authorizedRelayers = {Stranger}
    /\ called.fn \in RelayFns
    /\ called.sender = RelayerAccount
    /\ called.signed
    /\ ~called.ok

\* request r is rejected in this step with the given error, before any gas
\* estimation
RejectedWith(r, message) ==
    /\ req'[r].pc = "failed"
    /\ req'[r].error = message
    /\ req'[r].estimateCalls = 0

\* C29 (FundEscrow allowance check): when the allowance read of a FundEscrow
\* request returns less than the escrow's amount, the request is rejected
\* before gas estimation: with "Insufficient USDC allowance" when the balance
\* it read is at least the amount, with "Insufficient USDC balance" when the
\* balance is short too; the rejected request is never estimated.
FundAllowanceCheck ==
    /\ [][\A r \in Reqs :
            (/\ Returns(r, "getUserAllowance")
             /\ req'[r].error # "RPC error"
             /\ allowance[req[r].params.actor] < req[r].escrowAmount)
                => IF req[r].userBalance >= req[r].escrowAmount
                   THEN RejectedWith(r, "Insufficient USDC allowance")
                   ELSE RejectedWith(r, "Insufficient USDC balance")]_vars
    /\ [][\A r \in Reqs :
            req[r].pc = "failed" => req'[r] = req[r]]_vars

\* C29 witness: a FundEscrow request read a balance that covers the escrow's
\* amount and an allowance that does not, and was rejected with the
\* allowance error without any estimation.
FundAllowanceCheckWitness ==
    \E r \in Reqs :
        /\ req[r].params.variant = "FundEscrow"
        /\ req[r].pc = "failed"
        /\ req[r].error = "Insufficient USDC allowance"
        /\ req[r].escrowAmount > 0
        /\ req[r].userBalance >= req[r].escrowAmount
        /\ req[r].userAllowance < req[r].escrowAmount
        /\ req[r].estimateCalls = 0

\* the multiplier in force, in hundredths
MultiplierInForce ==
    IF GAS_PRICE_MULTIPLIER = UnsetMultiplier THEN DefaultMultiplier
    ELSE GAS_PRICE_MULTIPLIER

\* executeTransaction of request r reads the gas price and simulates in
\* this step
PricesGas(r) == Returns(r, "simulateContract") /\ req'[r].error # "RPC error"

\* with GAS_PRICE_MULTIPLIER unset the price used is gasPrice * 110 div 100
DefaultGasPriceAdjusted ==
    [][\A r \in Reqs :
          (PricesGas(r) /\ GAS_PRICE_MULTIPLIER = UnsetMultiplier)
              => req'[r].adjustedGasPrice = (gasPrice * 110) \div 100]_vars

\* with a multiplier of at least 1 the price used is at least the network's
AdjustedNotBelowNetwork ==
    [][\A r \in Reqs :
          (PricesGas(r) /\ MultiplierInForce >= 100)
              => req'[r].adjustedGasPrice >= gasPrice]_vars

\* the transaction is sent with the price computed before the simulation
SentWithAdjustedPrice ==
    \A i \in DOMAIN txs : txs[i].gasPrice = req[txs[i].req].adjustedGasPrice

\* C30 (adjusted gas price), as the specification states it: the gas price
\* executeTransaction uses is the integer quotient of (network gas price
\* times the multiplier's hundredths, floor(multiplier * 100)) by 100; with
\* the default multiplier this is gasPrice * 110 div 100; and with a
\* multiplier of at least 1 it is never below the network gas price.
AdjustedGasPriceExact ==
    /\ [][\A r \in Reqs :
            PricesGas(r) =>
                req'[r].adjustedGasPrice = (gasPrice * MultiplierInForce) \div 100]_vars
    /\ DefaultGasPriceAdjusted
    /\ AdjustedNotBelowNetwork
    /\ [](SentWithAdjustedPrice)

(***************************************************************************)
(* SpecWindow: one client around the end of its rate window, on the clock  *)
(* of the service's process                                                *)
(***************************************************************************)
\* how long the client may pause between two requests, in ms
Waits == {500, 1000}

\* when the window ends in which the client has used all its points but one
WindowEnds == {499, 500, 1499, 1500, 2000}

\* the model's bound on the clock for the pauses of the client; a wait of a
\* reported retryAfter may end up to one window later
MaxClock == 4000

\* MemoryStorage: a key whose window has ended counts as absent
Live(points, ends, t) ==
    [c \in DOMAIN points |-> IF t < ends[c] THEN points[c] ELSE 0]

\* a request of client c arrives at the present time of the clock
TimedRequest(c) ==
    LET request == HttpRequest("/other", c, API_KEY)
        live == Live(limiter, expiresAt, clock)
        g == Gate(request, API_KEY, live, expiresAt[c] - clock) IN
    /\ live[c] < RateLimitPoints + MaxRejected
    /\ limiter' = g.points
    /\ expiresAt' = IF live[c] = 0
                    THEN [expiresAt EXCEPT ![c] = clock + RateLimitDuration * 1000]
                    ELSE expiresAt
    /\ retryAt' = [retryAt EXCEPT ![c] =
                     IF g.answer.status = 429
                     THEN clock + g.answer.retryAfter * 1000 ELSE NoRetry]
    /\ IF g.answer.status = 0 THEN NotFoundHandler(g) ELSE Rejected(g)
    /\ UNCHANGED <<chainVars, txs, executed, called, gasPrice,
                   GAS_PRICE_MULTIPLIER, callVars, API_KEY, clock>>

\* time passes until the clock shows t
WaitUntil(t) ==
    /\ clock' = t
    /\ UNCHANGED <<chainVars, httpVars, txs, req, executed, called, gasPrice,
                   GAS_PRICE_MULTIPLIER, callVars, expiresAt, retryAt>>

\* the client pauses
Wait(ms) ==
    /\ clock + ms <= MaxClock
    /\ WaitUntil(clock + ms)

\* the rejected client waits the retryAfter seconds of its 429 answer
WaitRetryAfter(c) ==
    /\ retryAt[c] # NoRetry
    /\ retryAt[c] > clock
    /\ retryAt[c] <= MaxClock + RateLimitDuration * 1000
    /\ WaitUntil(retryAt[c])

InitWindow ==
    \E end \in WindowEnds :
        /\ ServiceInit(Deployed)
        /\ HttpInitAt(NoApiKey, [NoPoints EXCEPT !["ip1"] = RateLimitPoints - 1],
                      [NoPoints EXCEPT !["ip1"] = end])

NextWindow ==
    \/ TimedRequest("ip1")
    \/ \E ms \in Waits : Wait(ms)
    \/ WaitRetryAfter("ip1")

SpecWindow == InitWindow /\ [][NextWindow]_vars

\* a request of client c is answered in this step
Arrives(c) ==
    /\ answered'.client = c
    /\ \/ limiter'[c] # limiter[c]
       \/ expiresAt'[c] # expiresAt[c]

\* C31 (rate window reset, as the claim states it): a client that was answered
\* 429 and has waited the retryAfter seconds of that answer is let through by
\* its next request, which is the first of a new window; and a request is never
\* rejected while fewer than 100 points of the running window are consumed.
RateWindowReset ==
    /\ [][\A c \in Clients :
            (Arrives(c) /\ retryAt[c] # NoRetry /\ clock >= retryAt[c])
                => /\ answered'.status # 429
                   /\ limiter'[c] = 1]_vars
    /\ [][\A c \in Clients :
            (Arrives(c) /\ Live(limiter, expiresAt, clock)[c] < RateLimitPoints)
                => answered'.status # 429]_vars

(***************************************************************************)
(* SpecTermination: the requests of SpecRace when every awaited call        *)
(* returns or throws and the timer of the receipt wait runs                *)
(***************************************************************************)
\* the call request r awaits, other than the wait for the receipt, returns or
\* throws
CallReturns(r) ==
    \/ VerifySignature(r)
    \/ CheckRelayerBalance(r)
    \/ GetEscrowDetails(r)
    \/ GetUserBalance(r)
    \/ GetUserAllowance(r)
    \/ EstimateGas(r)
    \/ Simulate(r)
    \/ WriteContract(r)
    \/ (req[r].pc # "waitForTransactionReceipt" /\ RpcError(r))

\* every call returns or throws; waitForTransactionReceipt resolves once the
\* transaction is mined and rejects when its timeout passes before that. That
\* a transaction is ever mined is not assumed.
Scheduling ==
    \A r \in Reqs :
        /\ WF_vars(CallReturns(r))
        /\ WF_vars(AwaitReceipt(r))
        /\ WF_vars(ReceiptTimeout(r))

SpecTermination == InitRace /\ [][NextRace]_vars /\ Scheduling

\* C32 (termination): every relay request that was received eventually ends,
\* with Confirmed as its last stage or with Failed; a request that waits for
\* the receipt of its transaction stops waiting even when the transaction is
\* never mined.
RelayTerminates ==
    /\ \A r \in Reqs :
          (req[r].pc # "idle") ~> (req[r].pc \in {"done", "failed"})
    /\ [](\A r \in Reqs :
            /\ req[r].pc = "done" =>
                  req[r].stages[Len(req[r].stages)] = "Confirmed"
            /\ req[r].pc = "failed" =>
                  req[r].stages[Len(req[r].stages)] = "Failed")

\* C32 witness: a request gave up waiting for the receipt of a transaction
\* that is still not mined, and ended as Failed.
RelayTerminatesWitness ==
    \E r \in Reqs :
        /\ req[r].pc = "failed"
        /\ req[r].error = "receipt timeout"
        /\ "Submitted" \in Range(req[r].stages)
        /\ req[r].stages[Len(req[r].stages)] = "Failed"
        /\ txs[req[r].tx].status = "pending"

(***************************************************************************)
(* SpecExtract: extractEscrowIdFromLogs called with the logs of a receipt  *)
(***************************************************************************)
\* the most logs in a receipt
MaxLogs == 3

\* the logs a receipt may hold: one without a topics field, one with no
\* topics, ones of other events, and EscrowCreated logs with and without the
\* indexed escrow id
LogShapes ==
    {[address |-> LiskEscrow],
     [address |-> LiskEscrow, topics |-> <<>>],
     OtherLog(EscrowRelayer, "TransactionRelayed"),
     [address |-> LiskEscrow, topics |-> <<"EscrowFunded", SetupEscrowId>>],
     [address |-> LiskEscrow, topics |-> <<"EscrowCreated">>],
     EscrowCreatedLog(SetupEscrowId),
     EscrowCreatedLog(NoEscrowId)}

Receipts == UNION {[1..n -> LogShapes] : n \in 0..MaxLogs}

\* this.extractEscrowIdFromLogs(receipt.logs)
ExtractCall ==
    /\ ~Called
    /\ extracted' = extractEscrowIdFromLogs(receiptLogs)
    /\ UNCHANGED <<chainVars, httpVars, txs, req, executed, called, gasPrice,
                   GAS_PRICE_MULTIPLIER, timeVars, receiptLogs>>

InitExtract ==
    \E logs \in Receipts :
        /\ ServiceInitLogs(Deployed, 1, UnsetMultiplier, logs)
        /\ HttpInit(NoApiKey, NoPoints)

NextExtract == ExtractCall

SpecExtract == InitExtract /\ [][NextExtract]_vars

\* the positions of the logs whose first topic is the EscrowCreated signature
Matching(logs) ==
    {i \in DOMAIN logs :
        /\ "topics" \in DOMAIN logs[i]
        /\ logs[i].topics # <<>>
        /\ Head(logs[i].topics) = "EscrowCreated"}

\* C33 (extractEscrowIdFromLogs): the call throws exactly when no log of the
\* receipt has the EscrowCreated signature as its first topic (logs without
\* topics do not count); otherwise it returns the second topic of the first
\* such log in receipt order, undefined when that log has no second topic.
ExtractFirstMatch ==
    Called =>
        LET found == Matching(receiptLogs) IN
        /\ extracted.threw <=> found = {}
        /\ found # {} =>
              LET first == CHOOSE i \in found : \A j \in found : i <= j
                  topics == receiptLogs[first].topics IN
              extracted.value = IF Len(topics) >= 2 THEN topics[2]
                                ELSE Undefined

\* C33 witness: the receipt holds a log without topics, then two
\* EscrowCreated logs with different ids; the call returned the id of the
\* first of the two.
ExtractFirstMatchWitness ==
    /\ ~extracted.threw
    /\ extracted.value = SetupEscrowId
    /\ Len(receiptLogs) = 3
    /\ "topics" \notin DOMAIN receiptLogs[1]
    /\ receiptLogs[2] = EscrowCreatedLog(SetupEscrowId)
    /\ receiptLogs[3] = EscrowCreatedLog(NoEscrowId)

\* the functions that create an escrow
CreateFns == {"createEscrow", "createEscrowMeta", "relayCreateEscrow"}

\* the fields of an escrow that are set at its creation
Terms(escrow) ==
    <<escrow.buyer, escrow.seller, escrow.amount, escrow.token,
      escrow.deliveryDeadline>>

\* C34 (escrow record immutability): an escrow id that exists keeps existing
\* with the same buyer, seller, amount, token and deliveryDeadline whatever
\* is called, directly or through the relayer; and a create call that
\* succeeds adds an id that did not exist, so a create whose id is taken
\* reverts.
EscrowTermsImmutable ==
    /\ [][\A e \in DOMAIN escrows :
            /\ e \in DOMAIN escrows'
            /\ Terms(escrows'[e]) = Terms(escrows[e])]_vars
    /\ [][(called'.fn \in CreateFns /\ called'.ok)
            => \E e \in DOMAIN escrows' : e \notin DOMAIN escrows]_vars

\* C34 witness: a relayed create, signed by the buyer at the buyer's nonce
\* and sent by the authorized relayer, has reverted: its id is that of the
\* escrow there is, which has been funded in the meantime.
EscrowTermsImmutableWitness ==
    /\ called.fn = "relayCreateEscrow"
    /\ called.signed
    /\ ~called.ok
    /\ \E e \in DOMAIN escrows : escrows[e].status = "FUNDED"

(***************************************************************************)
(* SpecFunds: two escrows of different amounts, one in each direction      *)
(* between the two parties, from creation to settlement                    *)
(***************************************************************************)
\* the amounts of the two escrows
FirstAmount == 1
SecondAmount == 2

\* both escrows are created in the block of the deployment; each buyer holds
\* the amount of its escrow and has approved LiskEscrow for it
TwoEscrows ==
    LET s0 == [Deployed EXCEPT !.now = Genesis]
        s1 == createEscrow(s0, Buyer, Seller, FirstAmount, USDC,
                           MaxTime + 1).state
        s2 == createEscrow(s1, Seller, Buyer, SecondAmount, USDC,
                           MaxTime + 1).state IN
    approve(approve(mint(mint(s2, Buyer, FirstAmount), Seller, SecondAmount),
                    Buyer, FirstAmount),
            Seller, SecondAmount)

InitFunds == InitWith(TwoEscrows)

NextFunds ==
    \/ EscrowCall
    \/ ResolveCall
    \/ RelayerCall({RelayerAccount})

SpecFunds == InitFunds /\ [][NextFunds]_vars

\* the statuses in which LiskEscrow holds the amount of an escrow
Held == {"FUNDED", "DOCUMENTS_PENDING", "DISPUTED"}

RECURSIVE SumOfAmounts(_)
SumOfAmounts(ids) ==
    IF ids = {} THEN 0
    ELSE LET e == CHOOSE e \in ids : TRUE IN
         escrows[e].amount + SumOfAmounts(ids \ {e})

\* the amounts of the escrows LiskEscrow holds
HeldTotal == SumOfAmounts({e \in DOMAIN escrows : escrows[e].status \in Held})

\* in this step the amount of escrow e goes from the account from to the
\* account to
Moves(e, from, to) ==
    /\ balanceOf'[from] = balanceOf[from] - escrows[e].amount
    /\ balanceOf'[to] = balanceOf[to] + escrows[e].amount
    /\ \A a \in DOMAIN balanceOf \ {from, to} : balanceOf'[a] = balanceOf[a]

\* C35 (fund conservation): the tokens LiskEscrow holds are the sum of the
\* amounts of the escrows that are FUNDED, DOCUMENTS_PENDING or DISPUTED. An
\* escrow leaves CREATED only by being funded, which moves its amount from
\* its buyer to LiskEscrow, or by being cancelled; it leaves the held
\* statuses only by being SETTLED, which moves its amount from LiskEscrow to
\* its seller or to its buyer; SETTLED and CANCELLED are final; and no other
\* step moves a token.
FundConservation ==
    /\ [](balanceOf[LiskEscrow] = HeldTotal)
    /\ [][\A e \in DOMAIN escrows :
            LET was == escrows[e].status
                is == escrows'[e].status IN
            /\ (was = "CREATED" /\ is # "CREATED") =>
                  \/ is = "CANCELLED" /\ balanceOf' = balanceOf
                  \/ is = "FUNDED" /\ Moves(e, escrows[e].buyer, LiskEscrow)
            /\ (was \in Held /\ is \notin Held) =>
                  /\ is = "SETTLED"
                  /\ \/ Moves(e, LiskEscrow, escrows[e].seller)
                     \/ Moves(e, LiskEscrow, escrows[e].buyer)
            /\ was \in {"SETTLED", "CANCELLED"} => is = was]_vars
    /\ [][balanceOf' # balanceOf =>
            \E e \in DOMAIN escrows :
                \/ escrows[e].status = "CREATED" /\ escrows'[e].status = "FUNDED"
                \/ escrows[e].status \in Held /\ escrows'[e].status = "SETTLED"]_vars

\* C35 witness: one escrow has been settled by the buyer's confirmation and
\* its amount is with its seller, while the other is in dispute and its
\* amount is with LiskEscrow.
FundConservationWitness ==
    \E e1, e2 \in DOMAIN escrows :
        /\ escrows[e1].amount = FirstAmount
        /\ escrows[e1].status = "SETTLED"
        /\ escrows[e2].amount = SecondAmount
        /\ escrows[e2].status = "DISPUTED"
        /\ balanceOf[LiskEscrow] = SecondAmount
        /\ balanceOf[Seller] = FirstAmount

\* C36 (meta path equals direct path, as the claim states it): a create made
\* through createEscrowMeta succeeds only when createEscrow, called by that
\* buyer with the same arguments in the same state, would succeed; so every
\* escrow has a seller that is neither the zero address nor its buyer, an
\* amount above zero and a deadline after the time of its creation.
MetaEqualsDirect ==
    /\ [][(called'.fn \in {"createEscrowMeta", "relayCreateEscrow"} /\ called'.ok)
            => \A e \in DOMAIN escrows' \ DOMAIN escrows :
                  createEscrow(Chain, escrows'[e].buyer, escrows'[e].seller,
                               escrows'[e].amount, escrows'[e].token,
                               escrows'[e].deliveryDeadline).ok]_vars
    /\ [](\A e \in DOMAIN escrows :
            /\ escrows[e].seller # ZERO
            /\ escrows[e].seller # escrows[e].buyer
            /\ escrows[e].amount > 0
            /\ escrows[e].deliveryDeadline > escrows[e].createdAt)

(***************************************************************************)
(* SpecTypes: signatures made for one type of message, presented to the    *)
(* service and to the contracts with a request of that type and with a     *)
(* request of another type                                                 *)
(***************************************************************************)
\* the honest requests, and the same requests carrying the actor's signature
\* over the same fields and nonce under the other type
TypedRequests(ids) ==
    HonestRequests(ids)
    \cup UNION {{[p EXCEPT !.signature =
                     Sign(p.actor, MessageFor(OtherVariant(p.variant),
                                              [NoFields EXCEPT
                                                 !.seller = p.seller,
                                                 !.amount = p.amount,
                                                 !.token = p.token,
                                                 !.deliveryDeadline = p.deliveryDeadline,
                                                 !.escrowId = p.escrowId,
                                                 !.documentHash = p.documentHash],
                                              n))] :
                    n \in SigNonces} :
                p \in HonestRequests(ids)}

\* the authorized relayer account calls a relay function itself
TypedRelayerCall ==
    \E p \in TypedRequests(DOMAIN escrows) :
        Call(CallOf(MethodOf(p.variant), RelayerAccount, p, NoTarget, FALSE))

NextTypes ==
    \/ ReceiveFrom({1}, TypedRequests(DOMAIN escrows))
    \/ \E r \in Reqs : VerifySignature(r)
    \/ \E r \in Reqs : CheckRelayerBalance(r)
    \/ \E r \in Reqs : GetEscrowDetails(r)
    \/ \E r \in Reqs : GetUserBalance(r)
    \/ \E r \in Reqs : GetUserAllowance(r)
    \/ \E r \in Reqs : EstimateGas(r)
    \/ \E r \in Reqs : Simulate(r)
    \/ \E r \in Reqs : WriteContract(r)
    \/ \E r \in Reqs : AwaitReceipt(r)
    \/ \E r \in Reqs : ReceiptTimeout(r)
    \/ Mine
    \/ TypedRelayerCall

SpecTypes == InitRace /\ [][NextTypes]_vars

\* the message type a relay function verifies
TypeOfFn(fn) ==
    CASE fn = "relayCreateEscrow" -> "CreateEscrow"
      [] fn = "relayFundEscrow" -> "FundEscrow"
      [] fn = "relayConfirmDelivery" -> "ConfirmDelivery"
      [] fn = "relayStoreDocument" -> "StoreDocument"
      [] OTHER -> "none"

\* the request in slot r carries a well-formed signature made for a message
\* of another type than the request
CrossTyped(r) ==
    /\ req[r].pc # "idle"
    /\ req[r].params.signature.wellFormed
    /\ req[r].params.signature.msg.type # req[r].params.variant

\* this step is a call made from outside the service: the service's requests
\* and transactions stay as they are
CalledNow == req' = req /\ txs' = txs

\* C37 (message-type separation): a request whose signature was made for a
\* message of another type is never verified by the service and sends no
\* transaction; a relay call carrying such a signature reverts on the chain
\* and changes nothing; and every relayed transaction that succeeds carries
\* a signature of the type of its function.
TypeSeparation ==
    /\ [](\A r \in Reqs :
            CrossTyped(r) =>
                /\ "Verified" \notin Range(req[r].stages)
                /\ req[r].writeCalls = 0
                /\ req[r].pc \in {"getNonce", "failed"})
    /\ [][(/\ CalledNow
            /\ called'.fn \in RelayFns
            /\ called'.type # TypeOfFn(called'.fn))
            => /\ ~called'.ok
               /\ UNCHANGED chainVars]_vars
    /\ [](\A i \in DOMAIN txs :
            txs[i].status = "success" =>
                txs[i].call.signature.msg.type = TypeOfFn(txs[i].call.method))

\* C37 witness: the escrow is DOCUMENTS_PENDING, where a confirmation by the
\* buyer is accepted. A ConfirmDelivery request carrying the buyer's
\* signature over FundEscrow with the same escrow id and the nonce the
\* service read has failed with "Invalid signature", and a
\* relayConfirmDelivery call with such a signature has reverted.
TypeSeparationWitness ==
    /\ \E r \in Reqs :
          /\ req[r].params.variant = "ConfirmDelivery"
          /\ req[r].params.signature =
                Sign(Buyer, FundEscrowMsg(req[r].params.escrowId, req[r].nonce))
          /\ req[r].pc = "failed"
          /\ req[r].error = "Invalid signature"
          /\ escrows[req[r].params.escrowId].status = "DOCUMENTS_PENDING"
    /\ called.fn = "relayConfirmDelivery"
    /\ called.type = "FundEscrow"
    /\ called.signer = Buyer
    /\ ~called.ok

(***************************************************************************)
(* SpecAuth: a client with the configured API key, with another one or     *)
(* with none, against every route, with and without process.env.API_KEY    *)
(***************************************************************************)
\* the x-api-key headers a client sends: none, the configured key, a guess
Headers == ApiKeys \cup {"guess"}

\* the bodies of the relay requests: fund requests for the escrow there is
AuthBodies ==
    Bodies({p \in HonestRequests(DOMAIN escrows) : p.variant = "FundEscrow"})

InitAuth ==
    \E key \in ApiKeys, n \in {RateLimitPoints - 2, RateLimitPoints - 1} :
        /\ ServiceInit(AfterCreate)
        /\ HttpInitAt(key, [NoPoints EXCEPT !["ip1"] = n], NoPoints)

NextAuth ==
    \/ \E k \in Headers : HttpHealth("ip1", k)
    \/ \E k \in Headers : HttpOther("ip1", k)
    \/ \E k \in Headers : HttpNonce("ip1", k, AddressOf(Buyer))
    \/ \E k \in Headers, b \in AuthBodies : HttpRelay({1}, "ip1", k, b)
    \/ NonceRead
    \/ \E r \in Reqs : VerifySignature(r)
    \/ \E r \in Reqs : RpcError(r)

SpecAuth == InitAuth /\ [][NextAuth]_vars

\* the request a step lets into a handler that awaits a chain call, or else
\* the request the step answers
Handled ==
    IF lookup'.pc = "getNonce" /\ lookup.pc # "getNonce" THEN lookup'.request
    ELSE IF \E r \in Reqs : admitted'[r] # admitted[r]
    THEN (CHOOSE a \in {admitted'[r] : r \in {x \in Reqs : admitted'[x] # admitted[x]}} :
             TRUE).request
    ELSE answered'.request

\* the request names a route other than /health with an x-api-key header
\* that is not the configured key
KeyMismatch(request) ==
    /\ API_KEY # NoApiKey
    /\ request.path # "/health"
    /\ request.apiKey # API_KEY

\* C38 (authentication precedes metering): a step that answers 401 answers a
\* request for another route than /health whose header differs from the
\* configured key, consumes no point of the rate limiter, starts no relay
\* pipeline and no nonce lookup and leaves the chain alone; no point is ever
\* consumed and no handler ever entered by such a request; every other
\* answer to a request for another route than /health, when a key is
\* configured, is to a request that carries it; and without a configured key
\* no answer is 401.
AuthBeforeMetering ==
    /\ [][(answered'.status = 401 /\ answered' # answered) =>
            /\ KeyMismatch(answered'.request)
            /\ limiter' = limiter
            /\ req' = req
            /\ lookup' = lookup
            /\ txs' = txs
            /\ UNCHANGED chainVars]_vars
    /\ [][(limiter' # limiter \/ admitted' # admitted
             \/ (lookup'.pc = "getNonce" /\ lookup.pc # "getNonce"))
            => ~KeyMismatch(Handled)]_vars
    /\ [](answered.status \notin {0, 401} => ~KeyMismatch(answered.request))
    /\ [](API_KEY = NoApiKey => answered.status # 401)

\* C38 witness: with a key configured, a relay request with every field
\* present and another key in its header has been answered 401; the client's
\* points are where they were, no request is in the pipeline and no lookup
\* runs.
AuthBeforeMeteringWitness ==
    /\ API_KEY = "secret"
    /\ answered.status = 401
    /\ answered.path = RelayPath("FundEscrow")
    /\ answered.request.apiKey = "guess"
    /\ answered.request.body.absent = {}
    /\ limiter["ip1"] = RateLimitPoints - 2
    /\ \A r \in Reqs : req[r].pc = "idle"
    /\ lookup.pc = "idle"

(***************************************************************************)
(* Role checks of LiskEscrow, under SpecFunds: two escrows in which alice   *)
(* and bob have opposite roles, called directly by both, through the relay *)
(* functions with their signatures, and resolved by the owner or by        *)
(* another account                                                         *)
(***************************************************************************)
\* every account of the model
Accounts == Users \cup Admins

\* the party the call of this step acts for: the signer of a relayed call,
\* the sender of a direct one
ActsFor ==
    IF called'.fn \in RelayFns \cup MetaFns THEN called'.signer
    ELSE called'.sender

\* the call of this step is one of the two named functions, and a relayed
\* call carries the signature of its signer over its fields and nonce
CallIs(direct, relayed) ==
    \/ called'.fn = direct
    \/ called'.fn = relayed /\ called'.signed

\* the relayed requests of a variant signed by an account that is not the
\* given party of the escrow they name
OnBehalfOfOthers(variant, role) ==
    {p \in ContractRequests(DOMAIN escrows) :
        /\ p.variant = variant
        /\ p.signature.signer # role[p.escrowId]}

\* C39 (role checks): an escrow goes from CREATED to FUNDED and from
\* DOCUMENTS_PENDING to SETTLED only in a successful fund or confirm call made
\* by its buyer or relayed with its buyer's signature; its documents change
\* only in a store call by or signed by its seller; it becomes CANCELLED or
\* DISPUTED only in a cancel or dispute call of its buyer or seller; it
\* leaves DISPUTED only in resolveDispute called by the owner of LiskEscrow;
\* a call that reverts changes no escrow, document or balance; and in every
\* state each of these calls, made by or signed by any other account,
\* reverts.
RoleChecks ==
    /\ [][\A e \in DOMAIN escrows :
            LET was == escrows[e].status
                is == escrows'[e].status
                buyer == escrows[e].buyer
                seller == escrows[e].seller IN
            /\ (was = "CREATED" /\ is = "FUNDED") =>
                  /\ called'.ok
                  /\ CallIs("fundEscrow", "relayFundEscrow")
                  /\ ActsFor = buyer
            /\ (was = "DOCUMENTS_PENDING" /\ is = "SETTLED") =>
                  /\ called'.ok
                  /\ CallIs("confirmDelivery", "relayConfirmDelivery")
                  /\ ActsFor = buyer
            /\ (\/ DocumentsOf(Chain, e) # DocumentsOf(Chain, e)'
                \/ escrows'[e].documentsUploaded # escrows[e].documentsUploaded
                \/ (was = "FUNDED" /\ is = "DOCUMENTS_PENDING")) =>
                  /\ called'.ok
                  /\ CallIs("storeDocumentHash", "relayStoreDocument")
                  /\ ActsFor = seller
            /\ (was # "CANCELLED" /\ is = "CANCELLED") =>
                  /\ called'.ok
                  /\ called'.fn = "cancelEscrow"
                  /\ called'.sender \in {buyer, seller}
            /\ (was # "DISPUTED" /\ is = "DISPUTED") =>
                  /\ called'.ok
                  /\ called'.fn = "initiateDispute"
                  /\ called'.sender \in {buyer, seller}
            /\ (was = "DISPUTED" /\ is # "DISPUTED") =>
                  /\ called'.ok
                  /\ called'.fn = "resolveDispute"
                  /\ called'.sender = owner[LiskEscrow]
            /\ ~called'.ok =>
                  /\ escrows' = escrows
                  /\ escrowDocuments' = escrowDocuments
                  /\ balanceOf' = balanceOf]_vars
    /\ [](\A e \in DOMAIN escrows, u \in Accounts :
            /\ u # escrows[e].buyer =>
                  /\ fundEscrow(Chain, u, e) = Revert(Chain)
                  /\ confirmDelivery(Chain, u, e) = Revert(Chain)
            /\ u # escrows[e].seller =>
                  \A h \in DocHashes :
                      storeDocumentHash(Chain, u, e, h) = Revert(Chain)
            /\ u \notin {escrows[e].buyer, escrows[e].seller} =>
                  /\ initiateDispute(Chain, u, e) = Revert(Chain)
                  /\ cancelEscrow(Chain, u, e) = Revert(Chain)
            /\ u # owner[LiskEscrow] =>
                  \A refundBuyer \in BOOLEAN :
                      resolveDispute(Chain, u, e, refundBuyer) = Revert(Chain))
    /\ [](\A p \in OnBehalfOfOthers("FundEscrow", [e \in DOMAIN escrows |-> escrows[e].buyer])
                \cup OnBehalfOfOthers("ConfirmDelivery", [e \in DOMAIN escrows |-> escrows[e].buyer])
                \cup OnBehalfOfOthers("StoreDocument", [e \in DOMAIN escrows |-> escrows[e].seller]) :
            /\ ExecRelay(Chain, RelayerAccount, RelayCall(MethodOf(p.variant), p))
                 = Revert(Chain)
            /\ Invoke(Chain, CallOf(MetaFnOf(p.variant), trustedForwarder, p,
                                    NoTarget, FALSE)) = Revert(Chain))

\* C39 witness: both escrows are DISPUTED, one after its seller stored a
\* document, and resolveDispute called by an account that is not the owner
\* has just reverted
RoleChecksWitness ==
    /\ \A e \in DOMAIN escrows : escrows[e].status = "DISPUTED"
    /\ \E e \in DOMAIN escrows : escrows[e].documentsUploaded
    /\ called.fn = "resolveDispute"
    /\ called.sender = Stranger
    /\ called.sender # owner[LiskEscrow]
    /\ ~called.ok

====
